---- MODULE Spec2Model ----
(***************************************************************************)
(* Research orchestration engine of g_seek (deep_research_project).        *)
(*                                                                         *)
(* The session record is ResearchState (core/state.py).  ResearchLoop      *)
(* (core/research_loop.py) drives it: run_loop generates a query, then     *)
(* loops search -> summarize -> reflect until MAX_RESEARCH_LOOPS or until  *)
(* no query is left, and finally builds the report.  run_loop is modelled  *)
(* as a process whose position is pc; every external call (LLM, search,    *)
(* retrieval) is one step whose outcome is chosen nondeterministically.    *)
(* The callers' handlers (streamlit_app.py) mutate the state between two   *)
(* calls of run_loop.  This is the specification Spec.                     *)
(*                                                                         *)
(* The second part is the sectioned loop: a plan of sections, each with    *)
(* its own query, search, summarize, reflect cycle, built from             *)
(* ResearchPlanner, ExecutionManager, ResearchReflector and                *)
(* ReportGenerator and driven by the handlers of chainlit_app.py.  This is *)
(* the specification SpecSections.                                         *)
(*                                                                         *)
(* The third part takes the components one at a time, each with the       *)
(* answers of the LLM and the network drawn from small sets:               *)
(* SpecComponents calls the planner and reflect_and_decide, SpecGraph      *)
(* follows the knowledge-graph merge, SpecCache the per-link content       *)
(* cache, SpecChunks and LiveSpecChunks the concurrent chunk tasks of      *)
(* summarize_sources, SpecClient the LLM client, SpecRecovery the         *)
(* recovery of a structured answer, SpecRegeneration the query            *)
(* regeneration after the relevance filter, SpecSplit the two             *)
(* split_text_into_chunks, SpecSources the source bookkeeping up to the   *)
(* report, SpecSerialization to_dict and from_dict.                       *)
(***************************************************************************)
EXTENDS Integers, Sequences, FiniteSets, TLC

----------------------------------------------------------------------------
(* Bounds of the model *)

\* calls of run_loop in one session
MaxRuns == 2
\* results one search may return (MAX_SEARCH_RESULTS_PER_QUERY in the code)
MaxResults == 2
\* sections a research plan may have
MaxSections == 3
\* results one search of the sectioned loop may return
MaxSectionResults == 1
\* chunks one summarize_sources call may split its sources into
MaxChunks == 3
(* Program configuration *)

\* Configuration.MAX_RESEARCH_LOOPS, as the loop tests set it
MAX_RESEARCH_LOOPS == 2
\* Configuration.MAX_CONCURRENT_CHUNKS, set below the number of chunks
MAX_CONCURRENT_CHUNKS == 2

----------------------------------------------------------------------------
(* Values *)

None == "None"
\* final_report before any report was built
NoReport == [body |-> None, sources |-> <<>>]
\* text an LLM can answer with when asked for a query; "" is the empty answer
Queries == {"q1", "q2"}
URLs == {"u1", "u2"}
NodeIds == {"n1", "n2"}

\* Python truthiness of an Optional[str]
Truthy(q) == q # None /\ q # ""

RECURSIVE SeqsUpTo(_, _)
SeqsUpTo(S, n) ==
    IF n = 0 THEN {<<>>}
    ELSE LET shorter == SeqsUpTo(S, n - 1)
         IN  shorter \cup {Append(s, x) : s \in shorter, x \in S}

\* what search_client.search can return: up to MaxResults links, or nothing
SearchOutcomes == SeqsUpTo(URLs, MaxResults)

Range(s) == {s[i] : i \in 1..Len(s)}

\* the messages _summarize_sources leaves in new_information
NoSourcesSelected == "No sources were selected for summarization."
NoContentSummarized == "No content could be summarized from the selected sources."
ConsolidationError == "Error occurred during final summary consolidation."
UnexpectedError == "An unexpected error occurred during source summarization."
SummaryText == "summary"

VARIABLES
    interactive_mode,          \* ResearchLoop.interactive_mode
    proposed_query,            \* ResearchState fields
    current_query,
    search_results,
    pending_source_selection,
    completed_loops,
    new_information,
    accumulated_summary,       \* the queries whose findings were appended
    sources_gathered,
    final_report,
    is_interrupted,
    pc,                        \* position of run_loop
    ret,                       \* what the last run_loop call returned
    entry,                     \* the state run_loop was entered in
    runs,                      \* calls of run_loop so far
    searches,                  \* search_client.search calls made by run_loop
    gens,                      \* initial-query LLM calls so far
    reflections,               \* reflection LLM calls so far
    summaries,                 \* _summarize_sources calls so far
    cycle,                     \* the query whose cycle is under way, its last phase, and
                               \* whether the last reflection answered without a query
    interrupt_observed,        \* a checkpoint of the loop has read is_interrupted as true
    research_plan,             \* ResearchState: the sections, in order
    current_section_index,     \* -1 until a plan was generated
    plan_approved,
    gathered,                  \* every link ever added to sources_gathered
    component,                 \* the component operation called last
    plan_answer,               \* what the planner's structured call answered
    plan_result,               \* what generate_plan returned
    reflect_response,          \* what the LLM answered the reflection prompt
    reflect_result,            \* what reflect_and_decide returned
    knowledge_graph_nodes,     \* ResearchState: the merged nodes, in order
    knowledge_graph_edges,     \* ResearchState: the merged edges, in order
    kg_call,                   \* position of extract_knowledge_graph
    kg_before,                 \* the two lists when the call began
    kg_outcome,                \* how the last extract_knowledge_graph ended
    kg_presented,              \* per node id, how often the merge was given it
    extractions,               \* calls of extract_knowledge_graph so far
    fetched_content,           \* ResearchState: per link, the content kept
    retrievals,                \* per link, retrieve_and_extract calls made
    cache_session,             \* whose summarization the session runs
    summarize_pc,              \* position of the chunk phase of summarize_sources
    chunk_count,               \* len(all_chunks_info)
    chunk_pc,                  \* per chunk, position of its summarize_chunk task
    chunk_result,              \* per chunk, what its task returned
    semaphore,                 \* value of the asyncio.Semaphore
    finished,                  \* the chunks in the order their tasks ended
    all_chunk_summaries,       \* the chunks whose summaries are consolidated
    clock,                     \* seconds since the LLM client was made
    provider_calls,            \* the times at which the provider was called
    recovery_call,             \* position of _robust_json_extract in the text
    recovery_data,             \* the object merged from the decoded substrings
    recovery_result,           \* the instance the recovery returned
    regenerated_queries,       \* ResearchState: the queries regenerate_query was given
    regenerate_calls,          \* per query, the regenerate_query calls made for it
    filter_call,               \* position of the filtered search of the section
    split_call,                \* the arguments of the last split_text_into_chunks call
    split_result,              \* what that call returned, or that it raised
    source_list,               \* the numbered source list of the last report
    saved_state,               \* the ResearchState that is saved
    snapshot,                  \* what to_dict returned for it
    restored,                  \* what from_dict made of the snapshot
    raw_query,                 \* the text _sanitize_query was given
    sanitized_query,           \* what it returned
    reflect_line,              \* the text after the QUERY: marker of a reflection
    parsed_query,              \* the next query parsed from it
    ollama_call                \* position of generate_text with the ollama provider

vars == <<interactive_mode, proposed_query, current_query, search_results,
          pending_source_selection, completed_loops, new_information,
          accumulated_summary, sources_gathered, final_report,
          is_interrupted, pc, ret, entry, runs, searches, gens, reflections,
          summaries, cycle, interrupt_observed, research_plan,
          current_section_index,
          plan_approved,
          gathered, component, plan_answer, plan_result, reflect_response,
          reflect_result, knowledge_graph_nodes, knowledge_graph_edges,
          kg_call, kg_before, kg_outcome, kg_presented, extractions,
          fetched_content, retrievals, cache_session, summarize_pc,
          chunk_count, chunk_pc, chunk_result, semaphore, finished,
          all_chunk_summaries, clock, provider_calls, recovery_call,
          recovery_data, recovery_result, regenerated_queries,
          regenerate_calls, filter_call, split_call, split_result,
          source_list, saved_state, snapshot, restored, raw_query,
          sanitized_query, reflect_line, parsed_query, ollama_call>>

state_fields == <<proposed_query, current_query, search_results,
                  pending_source_selection, completed_loops, new_information,
                  accumulated_summary, sources_gathered, final_report>>

counters == <<searches, gens, reflections, summaries, cycle,
              interrupt_observed>>

plan_fields == <<research_plan, current_section_index, plan_approved, gathered>>

\* what the component operations, called on their own, read and write
planner_fields == <<plan_answer, plan_result>>
reflector_fields == <<reflect_response, reflect_result>>
graph_fields == <<knowledge_graph_nodes, knowledge_graph_edges, kg_call,
                  kg_before, kg_outcome, kg_presented, extractions>>
cache_fields == <<fetched_content, retrievals, cache_session>>
chunk_fields == <<summarize_pc, chunk_count, chunk_pc, chunk_result,
                  semaphore, finished, all_chunk_summaries>>
client_fields == <<clock, provider_calls>>
first_fields == <<planner_fields, reflector_fields, graph_fields,
                  cache_fields, chunk_fields, client_fields>>
\* what the structured-output recovery and the utilities read and write
recovery_fields == <<recovery_call, recovery_data, recovery_result>>
regeneration_fields == <<regenerated_queries, regenerate_calls, filter_call>>
splitter_fields == <<split_call, split_result>>
listing_fields == <<source_list>>
serialization_fields == <<saved_state, snapshot, restored>>
text_fields == <<raw_query, sanitized_query, reflect_line, parsed_query,
                 ollama_call>>
utility_fields == <<recovery_fields, regeneration_fields, splitter_fields,
                    listing_fields, serialization_fields, text_fields>>
\* per group, the other groups
beside_recovery == <<regeneration_fields, splitter_fields, listing_fields,
                     serialization_fields, text_fields>>
beside_regeneration == <<recovery_fields, splitter_fields, listing_fields,
                         serialization_fields, text_fields>>
beside_splitter == <<recovery_fields, regeneration_fields, listing_fields,
                     serialization_fields, text_fields>>
beside_listing == <<recovery_fields, regeneration_fields, splitter_fields,
                    serialization_fields, text_fields>>
beside_serialization == <<recovery_fields, regeneration_fields,
                          splitter_fields, listing_fields, text_fields>>
beside_text == <<recovery_fields, regeneration_fields, splitter_fields,
                 listing_fields, serialization_fields>>

component_fields == <<component, planner_fields, reflector_fields,
                      graph_fields, cache_fields, chunk_fields, client_fields,
                      utility_fields>>

\* what the research loops and their handlers read and write
loop_fields == <<interactive_mode, state_fields, is_interrupted, pc, ret,
                 entry, runs, counters, plan_fields>>

Running == pc \notin {"idle", "returned", "raised"}

NoEntry == [current_query |-> None, proposed_query |-> None,
            pending_source_selection |-> FALSE, search_results |-> <<>>,
            completed_loops |-> 0, searches |-> 0, gens |-> 0,
            reflections |-> 0, summaries |-> 0, final_report |-> NoReport]

\* no query cycle has begun
\* no reflection line was parsed yet
NotParsed == [given |-> FALSE, text |-> <<>>]
\* no generate_text call was made yet
NoResponse == [value |-> "pending", attempt |-> 0]
OllamaIdle == [pc |-> "idle", num_retries |-> 0, attempt |-> 0,
               invoked |-> <<>>, result |-> NoResponse, calls |-> 0]

NoCycle == [query |-> None, phase |-> "none", no_next_query |-> FALSE]

\* ResearchState.__init__ and ResearchLoop.__init__
Init ==
    /\ interactive_mode \in BOOLEAN
    /\ proposed_query = None
    /\ current_query = None
    /\ search_results = <<>>
    /\ pending_source_selection = FALSE
    /\ completed_loops = 0
    /\ new_information = None
    /\ accumulated_summary = <<>>
    /\ sources_gathered = <<>>
    /\ final_report = NoReport
    /\ is_interrupted = FALSE
    /\ pc = "idle"
    /\ ret = NoReport
    /\ entry = NoEntry
    /\ runs = 0
    /\ searches = 0
    /\ gens = 0
    /\ reflections = 0
    /\ summaries = 0
    /\ cycle = NoCycle
    /\ interrupt_observed = FALSE
    /\ research_plan = <<>>
    /\ current_section_index = -1
    /\ plan_approved = FALSE
    /\ gathered = {}
    /\ component = "none"
    /\ plan_answer = [raised |-> FALSE, sections |-> <<>>]
    /\ plan_result = <<>>
    /\ reflect_response = [evaluation |-> "absent", query |-> "absent"]
    /\ reflect_result = [raised |-> FALSE, evaluation |-> "CONCLUDE",
                         next_query |-> None]
    /\ knowledge_graph_nodes = <<>>
    /\ knowledge_graph_edges = <<>>
    /\ kg_call = [pc |-> "idle", has_properties |-> FALSE, merged |-> 0]
    /\ kg_before = [nodes |-> <<>>, edges |-> <<>>]
    /\ kg_outcome = "none"
    /\ kg_presented = [id \in NodeIds |-> 0]
    /\ extractions = 0
    /\ fetched_content = [link \in URLs |-> "absent"]
    /\ retrievals = [link \in URLs |-> 0]
    /\ cache_session = [owner |-> "none", snippets_only |-> FALSE]
    /\ summarize_pc = "idle"
    /\ chunk_count = 0
    /\ chunk_pc = [i \in 1..MaxChunks |-> "unused"]
    /\ chunk_result = [i \in 1..MaxChunks |-> "pending"]
    /\ semaphore = MAX_CONCURRENT_CHUNKS
    /\ finished = <<>>
    /\ all_chunk_summaries = <<>>
    /\ clock = 0
    /\ provider_calls = <<>>
    /\ recovery_call = [pc |-> "idle", fragments |-> 0, decoded |-> FALSE]
    /\ recovery_data = [nodes |-> [present |-> FALSE, items |-> <<>>],
                        edges |-> [present |-> FALSE, items |-> <<>>]]
    /\ recovery_result = [raised |-> FALSE, nodes |-> <<>>, edges |-> <<>>]
    /\ regenerated_queries = {}
    /\ regenerate_calls = [q \in Queries |-> 0]
    /\ filter_call = [pc |-> "idle", query |-> None, cycles |-> 0]
    /\ split_call = [text |-> <<>>, chunk_size |-> 1, chunk_overlap |-> 0]
    /\ split_result = [raised |-> FALSE, chunks |-> <<>>]
    /\ source_list = <<>>
    /\ saved_state = <<>>
    /\ snapshot = <<>>
    /\ restored = <<>>
    /\ raw_query = <<>>
    /\ sanitized_query = <<>>
    /\ reflect_line = <<>>
    /\ parsed_query = NotParsed
    /\ ollama_call = OllamaIdle

----------------------------------------------------------------------------
(* ResearchLoop's steps (core/research_loop.py) *)

\* proposed_query after _generate_initial_query: the LLM's answer, or None
\* when the call raised; current_query is None in both cases
GeneratedQuery(out) == IF out = "raise" THEN None ELSE out

QueryOutcomes == Queries \cup {"", "raise"}

\* _web_search: no search without a current query; otherwise the results and
\* pending_source_selection iff there are any.  A provider that raises leaves
\* what an empty result leaves: no results, nothing pending.
web_search(out) ==
    IF ~Truthy(current_query)
    THEN /\ search_results' = <<>>
         /\ UNCHANGED <<pending_source_selection, cycle>>
    ELSE /\ search_results' = out
         /\ pending_source_selection' = (out # <<>>)
         /\ cycle' = [query |-> current_query, phase |-> "searched",
                      no_next_query |-> FALSE]

\* the selected links appended to sources_gathered whatever it holds
add_sources_unchecked(sources, selected) == sources \o selected

\* the selected links appended to sources_gathered, one entry per link
RECURSIVE AddSources(_, _)
AddSources(sources, selected) ==
    IF selected = <<>> THEN sources
    ELSE AddSources(IF Head(selected) \in Range(sources) THEN sources
                    ELSE Append(sources, Head(selected)),
                    Tail(selected))

\* how the chunk summaries and their consolidation can turn out
SummarizeOutcomes == {"no_chunk_summary", "summary", "empty_summary",
                      "consolidation_error", "unexpected_error"}

\* _summarize_sources(selected_results)
summarize_sources(selected, out) ==
    /\ pending_source_selection' = FALSE
    /\ summaries' = summaries + 1
    /\ cycle' = [cycle EXCEPT !.phase = "summarized"]
    /\ IF selected = <<>>
       THEN /\ new_information' = NoSourcesSelected
            /\ UNCHANGED <<accumulated_summary, sources_gathered>>
       ELSE CASE out = "no_chunk_summary" ->
                   /\ new_information' = NoContentSummarized
                   /\ UNCHANGED <<accumulated_summary, sources_gathered>>
              [] out = "unexpected_error" ->
                   /\ new_information' = UnexpectedError
                   /\ UNCHANGED <<accumulated_summary, sources_gathered>>
              [] out = "summary" ->
                   /\ new_information' = SummaryText
                   /\ accumulated_summary' = Append(accumulated_summary, current_query)
                   /\ sources_gathered' = AddSources(sources_gathered, selected)
              [] out = "empty_summary" ->
                   /\ new_information' = ""
                   /\ UNCHANGED accumulated_summary
                   /\ sources_gathered' = AddSources(sources_gathered, selected)
              [] out = "consolidation_error" ->
                   /\ new_information' = ConsolidationError
                   /\ UNCHANGED accumulated_summary
                   /\ sources_gathered' = AddSources(sources_gathered, selected)

\* the reflection answer: its EVALUATION: line and its QUERY: line
Evaluations == {"CONCLUDE", "CONTINUE", "MODIFY_QUERY", "OTHER", "absent"}
QueryLines == Queries \cup {"none", "", "absent"}
ReflectionRaised == [evaluation |-> "raise", query |-> "absent"]
ReflectionOutcomes ==
    [evaluation : Evaluations, query : QueryLines] \cup {ReflectionRaised}

\* a parse that takes the literal None of the QUERY: line for a query
parsed_next_query_keeps_none(resp) ==
    IF resp.query = "absent" THEN None ELSE resp.query

\* the parse of _reflect_on_summary
ParsedEvaluation(resp) ==
    IF resp.evaluation = "absent" THEN "ERROR" ELSE resp.evaluation
ParsedNextQuery(resp) ==
    IF resp.query \in {"absent", "none"} THEN None ELSE resp.query

\* the response yields no next query: it has no QUERY: line, or the line says
\* None
NoNextQuery(resp) ==
    resp # ReflectionRaised /\ resp.query \in {"absent", "none"}

\* proposed_query after _reflect_on_summary; current_query is None after it
ReflectedQuery(resp) ==
    IF resp = ReflectionRaised THEN None
    ELSE IF ParsedEvaluation(resp) \in {"CONTINUE", "MODIFY_QUERY"}
            /\ Truthy(ParsedNextQuery(resp))
         THEN ParsedNextQuery(resp)
         ELSE None

\* _finalize_summary: the report body and the "## Sources" listing
FinalReport(out) ==
    [body |-> IF accumulated_summary = <<>> THEN "no_information"
              ELSE IF out = "raise" THEN "accumulated_findings"
              ELSE "llm_report",
     sources |-> sources_gathered]

----------------------------------------------------------------------------
(* run_loop, step by step *)

Snapshot ==
    [current_query |-> current_query, proposed_query |-> proposed_query,
     pending_source_selection |-> pending_source_selection,
     search_results |-> search_results, completed_loops |-> completed_loops,
     searches |-> searches, gens |-> gens, reflections |-> reflections,
     summaries |-> summaries, final_report |-> final_report]

\* a caller invokes run_loop (main.py, streamlit_app.py, chainlit_app.py)
run_loop_call ==
    /\ ~Running
    /\ runs < MaxRuns
    /\ runs' = runs + 1
    /\ entry' = Snapshot
    /\ ret' = NoReport
    /\ pc' = "generate"
    /\ UNCHANGED component_fields
    /\ UNCHANGED <<plan_fields, interactive_mode, state_fields, is_interrupted, counters>>

\* a search whose pending results go to the reflection unsummarized
reflect_after_search(pending) ==
    IF pending /\ ~interactive_mode THEN "reflect" ELSE "post"

\* where the loop body goes once the search step is behind it: automatic mode
\* summarizes what is pending, everything else goes to the loop's bookkeeping
AfterSearch(pending) ==
    IF pending /\ ~interactive_mode THEN "summarize" ELSE "post"

\* run_loop up to the while loop: the initial query is generated on every
\* call, and approved at once in automatic mode
run_loop_generate ==
    /\ pc = "generate"
    /\ \E out \in QueryOutcomes :
         LET q == GeneratedQuery(out) IN
         IF ~interactive_mode /\ Truthy(q)
         THEN current_query' = q /\ proposed_query' = None
         ELSE current_query' = None /\ proposed_query' = q
    /\ gens' = gens + 1
    /\ pc' = "while"
    /\ UNCHANGED component_fields
    /\ UNCHANGED <<plan_fields, interactive_mode, search_results, pending_source_selection,
                   completed_loops, new_information, accumulated_summary,
                   sources_gathered, final_report, is_interrupted, ret, entry,
                   runs, searches, reflections, summaries, cycle,
                   interrupt_observed>>

\* a loop head that goes round again, instead of leaving, when no query can
\* be made current
run_loop_while_continues ==
    /\ pc = "while"
    /\ IF completed_loops < MAX_RESEARCH_LOOPS
       THEN IF Truthy(current_query)
            THEN /\ pc' = (IF pending_source_selection
                           THEN AfterSearch(TRUE) ELSE "search")
                 /\ UNCHANGED <<current_query, proposed_query>>
            ELSE IF ~interactive_mode /\ Truthy(proposed_query)
                 THEN /\ current_query' = proposed_query
                      /\ proposed_query' = None
                      /\ pc' = (IF pending_source_selection
                                THEN AfterSearch(TRUE) ELSE "search")
                 ELSE /\ pc' = "while"
                      /\ UNCHANGED <<current_query, proposed_query>>
       ELSE /\ pc' = "finalize"
            /\ UNCHANGED <<current_query, proposed_query>>
    /\ UNCHANGED component_fields
    /\ UNCHANGED <<plan_fields, interactive_mode, search_results, pending_source_selection,
                   completed_loops, new_information, accumulated_summary,
                   sources_gathered, final_report, is_interrupted, ret, entry,
                   runs, counters>>

\* the head of the while loop: leave when the loops are used up or when no
\* query can be made current, else go on to the search or to the selection
run_loop_while ==
    /\ pc = "while"
    /\ IF completed_loops < MAX_RESEARCH_LOOPS
       THEN IF Truthy(current_query)
            THEN /\ pc' = (IF pending_source_selection
                           THEN AfterSearch(TRUE) ELSE "search")
                 /\ UNCHANGED <<current_query, proposed_query>>
            ELSE IF ~interactive_mode /\ Truthy(proposed_query)
                 THEN /\ current_query' = proposed_query
                      /\ proposed_query' = None
                      /\ pc' = (IF pending_source_selection
                                THEN AfterSearch(TRUE) ELSE "search")
                 ELSE /\ pc' = "finalize"
                      /\ UNCHANGED <<current_query, proposed_query>>
       ELSE /\ pc' = "finalize"
            /\ UNCHANGED <<current_query, proposed_query>>
    /\ UNCHANGED component_fields
    /\ UNCHANGED <<plan_fields, interactive_mode, search_results, pending_source_selection,
                   completed_loops, new_information, accumulated_summary,
                   sources_gathered, final_report, is_interrupted, ret, entry,
                   runs, counters>>

\* the search of the current query
run_loop_search ==
    /\ pc = "search"
    /\ \E out \in SearchOutcomes : web_search(out)
    /\ searches' = searches + 1
    /\ pc' = AfterSearch(pending_source_selection')
    /\ UNCHANGED component_fields
    /\ UNCHANGED <<plan_fields, interactive_mode, proposed_query, current_query,
                   completed_loops, new_information, accumulated_summary,
                   sources_gathered, final_report, is_interrupted, ret, entry,
                   runs, gens, reflections, summaries,
                   interrupt_observed>>

\* automatic mode: every search result is selected and summarized
run_loop_summarize ==
    /\ pc = "summarize"
    /\ \E out \in SummarizeOutcomes : summarize_sources(search_results, out)
    /\ pc' = "post"
    /\ UNCHANGED component_fields
    /\ UNCHANGED <<plan_fields, interactive_mode, proposed_query, current_query,
                   search_results, completed_loops, final_report,
                   is_interrupted, ret, entry, runs, searches, gens,
                   reflections,
                   interrupt_observed>>

\* a bookkeeping step that counts only the loops whose search found something
run_loop_post_counts_found ==
    /\ pc = "post"
    /\ IF ~pending_source_selection
       THEN LET n == IF search_results # <<>> THEN completed_loops + 1
                     ELSE completed_loops IN
            /\ completed_loops' = n
            /\ IF n < MAX_RESEARCH_LOOPS
               THEN /\ pc' = "reflect"
                    /\ UNCHANGED <<current_query, cycle>>
               ELSE /\ pc' = "while"
                    /\ current_query' = None
                    /\ cycle' = [cycle EXCEPT !.query = None]
       ELSE /\ pc' = (IF interactive_mode THEN "finalize" ELSE "while")
            /\ UNCHANGED <<completed_loops, current_query, cycle>>
    /\ UNCHANGED component_fields
    /\ UNCHANGED <<plan_fields, interactive_mode, proposed_query, search_results,
                   pending_source_selection, new_information,
                   accumulated_summary, sources_gathered, final_report,
                   is_interrupted, ret, entry, runs, searches, gens,
                   reflections, summaries,
                   interrupt_observed>>

\* the loop's bookkeeping: with nothing pending the loop is counted, and the
\* last one clears the query; a selection still pending ends an interactive call
run_loop_post ==
    /\ pc = "post"
    /\ IF ~pending_source_selection
       THEN /\ completed_loops' = completed_loops + 1
            /\ IF completed_loops + 1 < MAX_RESEARCH_LOOPS
               THEN /\ pc' = "reflect"
                    /\ UNCHANGED <<current_query, cycle>>
               ELSE /\ pc' = "while"
                    /\ current_query' = None
                    /\ cycle' = [cycle EXCEPT !.query = None]
       ELSE /\ pc' = (IF interactive_mode THEN "finalize" ELSE "while")
            /\ UNCHANGED <<completed_loops, current_query, cycle>>
    /\ UNCHANGED component_fields
    /\ UNCHANGED <<plan_fields, interactive_mode, proposed_query, search_results,
                   pending_source_selection, new_information,
                   accumulated_summary, sources_gathered, final_report,
                   is_interrupted, ret, entry, runs, searches, gens,
                   reflections, summaries,
                   interrupt_observed>>

\* a reflection step whose promotion leaves the proposal in place
run_loop_reflect_keeps_proposal ==
    /\ pc = "reflect"
    /\ \E resp \in ReflectionOutcomes :
         LET q == ReflectedQuery(resp) IN
         /\ IF ~interactive_mode /\ Truthy(q)
            THEN current_query' = q /\ proposed_query' = q
            ELSE current_query' = None /\ proposed_query' = q
         /\ cycle' = [query |-> None, phase |-> "reflected",
                      no_next_query |-> NoNextQuery(resp)]
    /\ reflections' = reflections + 1
    /\ pc' = "while"
    /\ UNCHANGED component_fields
    /\ UNCHANGED <<plan_fields, interactive_mode, search_results, pending_source_selection,
                   completed_loops, new_information, accumulated_summary,
                   sources_gathered, final_report, is_interrupted, ret, entry,
                   runs, searches, gens, summaries,
                   interrupt_observed>>

\* reflection, and what run_loop does with its proposal
run_loop_reflect ==
    /\ pc = "reflect"
    /\ \E resp \in ReflectionOutcomes :
         LET q == ReflectedQuery(resp) IN
         /\ IF ~interactive_mode /\ Truthy(q)
            THEN current_query' = q /\ proposed_query' = None
            ELSE current_query' = None /\ proposed_query' = q
         /\ cycle' = [query |-> None, phase |-> "reflected",
                      no_next_query |-> NoNextQuery(resp)]
    /\ reflections' = reflections + 1
    /\ pc' = "while"
    /\ UNCHANGED component_fields
    /\ UNCHANGED <<plan_fields, interactive_mode, search_results, pending_source_selection,
                   completed_loops, new_information, accumulated_summary,
                   sources_gathered, final_report, is_interrupted, ret, entry,
                   runs, searches, gens, summaries,
                   interrupt_observed>>

\* the report is built and returned, however the loop was left
run_loop_finalize ==
    /\ pc = "finalize"
    /\ \E out \in {"text", "raise"} :
         /\ final_report' = FinalReport(out)
         /\ ret' = FinalReport(out)
    /\ pc' = "returned"
    /\ UNCHANGED component_fields
    /\ UNCHANGED <<plan_fields, interactive_mode, proposed_query, current_query,
                   search_results, pending_source_selection, completed_loops,
                   new_information, accumulated_summary, sources_gathered,
                   is_interrupted, entry, runs, counters>>

run_loop ==
    \/ run_loop_call
    \/ run_loop_generate
    \/ run_loop_while
    \/ run_loop_search
    \/ run_loop_summarize
    \/ run_loop_post
    \/ run_loop_reflect
    \/ run_loop_finalize

----------------------------------------------------------------------------
(* The callers' handlers between two calls of run_loop *)

\* the sub-sequences of the search results a user can tick
PickIndices(s, I) ==
    LET F[i \in 0..Len(s)] ==
            IF i = 0 THEN <<>>
            ELSE IF i \in I THEN Append(F[i - 1], s[i]) ELSE F[i - 1]
    IN  F[Len(s)]
Selections(s) == {PickIndices(s, I) : I \in (SUBSET (1..Len(s))) \ {{}}}

\* the interactive controls are shown while no report exists
InteractiveControls ==
    /\ ~Running
    /\ interactive_mode
    /\ final_report = NoReport

\* "Start Research" in interactive mode: the initial query is proposed
start_interactive ==
    /\ InteractiveControls
    /\ runs = 0 /\ gens = 0
    /\ \E out \in QueryOutcomes :
         /\ proposed_query' = GeneratedQuery(out)
         /\ current_query' = None
    /\ gens' = gens + 1
    /\ UNCHANGED component_fields
    /\ UNCHANGED <<plan_fields, interactive_mode, search_results, pending_source_selection,
                   completed_loops, new_information, accumulated_summary,
                   sources_gathered, final_report, is_interrupted, pc, ret,
                   entry, runs, searches, reflections, summaries, cycle,
                   interrupt_observed>>

\* "Approve and Use Query": the proposed query, possibly edited, becomes the
\* current one
approve_query ==
    /\ InteractiveControls
    /\ Truthy(proposed_query)
    /\ \E edited \in Queries :
         /\ current_query' = edited
         /\ proposed_query' = None
    /\ search_results' = <<>>
    /\ pending_source_selection' = FALSE
    /\ UNCHANGED component_fields
    /\ UNCHANGED <<plan_fields, interactive_mode, completed_loops, new_information,
                   accumulated_summary, sources_gathered, final_report,
                   is_interrupted, pc, ret, entry, runs, counters>>

\* the interactive search of the approved query
interactive_web_search ==
    /\ InteractiveControls
    /\ Truthy(current_query)
    /\ search_results = <<>>
    /\ ~pending_source_selection
    /\ \E out \in SearchOutcomes : web_search(out)
    /\ UNCHANGED component_fields
    /\ UNCHANGED <<plan_fields, interactive_mode, proposed_query, current_query,
                   completed_loops, new_information, accumulated_summary,
                   sources_gathered, final_report, is_interrupted, pc, ret,
                   entry, runs, searches, gens, reflections, summaries,
                   interrupt_observed>>

\* "Summarize Selected Sources": the caller hands the ticked results over
summarize_selected ==
    /\ InteractiveControls
    /\ pending_source_selection
    /\ search_results # <<>>
    /\ \E selected \in Selections(search_results), out \in SummarizeOutcomes :
         summarize_sources(selected, out)
    /\ UNCHANGED component_fields
    /\ UNCHANGED <<plan_fields, interactive_mode, proposed_query, current_query,
                   search_results, completed_loops, final_report,
                   is_interrupted, pc, ret, entry, runs, searches, gens,
                   reflections,
                   interrupt_observed>>

\* "Stop Research"
on_stop ==
    /\ ~is_interrupted
    /\ is_interrupted' = TRUE
    /\ UNCHANGED component_fields
    /\ UNCHANGED <<plan_fields, interactive_mode, state_fields, pc, ret, entry, runs,
                   counters>>

Next ==
    \/ run_loop
    \/ start_interactive
    \/ approve_query
    \/ interactive_web_search
    \/ summarize_selected
    \/ on_stop

Spec == Init /\ [][Next]_vars

\* a call of run_loop that has begun keeps executing
run_loop_step ==
    \/ run_loop_generate
    \/ run_loop_while
    \/ run_loop_search
    \/ run_loop_summarize
    \/ run_loop_post
    \/ run_loop_reflect
    \/ run_loop_finalize

LiveSpec == Init /\ [][Next]_vars /\ WF_vars(run_loop_step)

----------------------------------------------------------------------------
(* The sectioned research loop.  Its components are ResearchPlanner        *)
(* (core/planning.py), ExecutionManager (core/execution.py),               *)
(* ResearchReflector (core/reflection.py) and ReportGenerator              *)
(* (core/reporting.py); chainlit_app.py drives it.  The loop that ties     *)
(* them together follows the loop state machine of the specification.      *)

\* the queries and links the sectioned loop's LLM and search answer with
SectionQueries == {"q1"}
SectionURLs == {"u1"}
SectionQueryOutcomes == SectionQueries \cup {"", "raise"}
SectionReflections ==
    [evaluation : {"CONCLUDE", "CONTINUE", "absent"},
     query : SectionQueries \cup {"none", "absent"}] \cup {ReflectionRaised}

Titles == {"s"}
RefinedTitles == {"r"}
GeneralResearch == "General Research"

\* ResearchState.research_topic, and a description as a sequence of words
research_topic == "topic"
AnsweredDescription == <<"d">>
FallbackDescription(topic) == <<"Comprehensive", "research", "on", topic>>

\* a section as the planner creates it
NewSection(title) ==
    [title |-> title, description |-> AnsweredDescription,
     status |-> "pending", summary |-> <<>>, sources |-> <<>>]

\* the single section generate_plan falls back to
FallbackSection(topic) ==
    [title |-> GeneralResearch, description |-> FallbackDescription(topic),
     status |-> "pending", summary |-> <<>>, sources |-> <<>>]

NewSections(titles) == [i \in 1..Len(titles) |-> NewSection(titles[i])]

\* what generate_structured can answer with for a plan: sections, or a raise
PlanAnswers(titles, n) ==
    {[raised |-> FALSE, sections |-> t] : t \in SeqsUpTo(titles, n)}
        \cup {[raised |-> TRUE, sections |-> <<>>]}

\* generate_plan with the except branch left out
generate_plan_without_fallback(answer) == NewSections(answer.sections)

\* ResearchPlanner.generate_plan: the answered sections, all pending, or the
\* single default section when the call raised
generate_plan(answer) ==
    IF answer.raised THEN <<FallbackSection(research_topic)>>
    ELSE NewSections(answer.sections)

\* ExecutionManager.generate_initial_query: the answer, or None on a raise
generate_initial_query(out) == IF out = "raise" THEN None ELSE out

\* ExecutionManager.web_search: nothing without a query, else the results
\* (a provider that raises gives the empty list)
em_web_search(query, out) == IF ~Truthy(query) THEN <<>> ELSE out

NoSourcesSelectedEM == "No sources selected."
CouldNotSummarize == "Could not summarize any content."

EMSummarizeOutcomes == {"no_chunk_summary", "summary", "empty_summary", "raise"}

\* a raise of the LLM inside summarize_sources is not caught there
em_summarize_raises(selected, out) ==
    selected # <<>> /\ ~is_interrupted /\ out = "raise"

\* ExecutionManager.summarize_sources(state, selected_results)
em_summarize_sources(selected, out) ==
    IF selected = <<>>
    THEN /\ new_information' = NoSourcesSelectedEM
         /\ pending_source_selection' = FALSE
         /\ UNCHANGED <<accumulated_summary, sources_gathered, gathered>>
    ELSE IF is_interrupted \/ out = "raise"
    THEN UNCHANGED <<new_information, pending_source_selection,
                     accumulated_summary, sources_gathered, gathered>>
    ELSE /\ IF out = "no_chunk_summary"
            THEN /\ new_information' = CouldNotSummarize
                 /\ UNCHANGED accumulated_summary
            ELSE /\ new_information' =
                        (IF out = "summary" THEN SummaryText ELSE "")
                 /\ accumulated_summary' =
                        Append(accumulated_summary, current_query)
         /\ sources_gathered' = AddSources(sources_gathered, selected)
         /\ gathered' = gathered \cup Range(selected)
         /\ pending_source_selection' = FALSE

\* ResearchReflector.reflect_and_decide: the evaluation defaults to CONCLUDE,
\* the query to None
ReflectEvaluation(resp) ==
    IF resp.evaluation = "absent" THEN "CONCLUDE" ELSE resp.evaluation
ReflectNextQuery(resp) ==
    IF resp.query \in {"absent", "none"} THEN None ELSE resp.query

\* the sources of all sections, each link once
RECURSIVE AllSources(_)
AllSources(plan) ==
    IF plan = <<>> THEN <<>>
    ELSE AddSources(AllSources(SubSeq(plan, 1, Len(plan) - 1)),
                    plan[Len(plan)].sources)

\* a Reporter that has no report when no section has a summary
finalize_report_needs_summary(plan) ==
    IF \A i \in 1..Len(plan) : plan[i].summary = <<>> THEN NoReport
    ELSE [body |-> "llm_report", sources |-> AllSources(plan)]

\* a Reporter that lists the sources of the summarized sections only
finalize_report_summarized_only(plan) ==
    [body |-> "llm_report",
     sources |-> AllSources(SelectSeq(plan, LAMBDA sec : sec.summary # <<>>))]

\* ReportGenerator.finalize_report: the LLM's text, followed by the
\* "## Sources" listing iff a section has a source
finalize_report(plan) ==
    [body |-> "llm_report", sources |-> AllSources(plan)]

HasSourcesListing(report) == report.sources # <<>>

----------------------------------------------------------------------------
(* The sectioned run_loop, step by step *)

\* run_loop is called: main.py, the tests, handle_interactive_steps
run_call ==
    /\ ~Running
    /\ ret' = NoReport
    /\ pc' = "s_plan"
    /\ UNCHANGED component_fields
    /\ UNCHANGED <<plan_fields, interactive_mode, state_fields, is_interrupted,
                   entry, runs, counters>>

\* the plan approval an interactive session waits for
AwaitingPlanApproval == ~plan_approved /\ research_plan # <<>>

\* a first step that goes on to the sections without waiting for the plan's
\* approval
run_plan_ungated ==
    /\ pc = "s_plan"
    /\ IF research_plan = <<>>
       THEN \E answer \in PlanAnswers(Titles, MaxSections) :
                research_plan' = generate_plan(answer)
       ELSE UNCHANGED research_plan
    /\ current_section_index' =
           (IF current_section_index < 0 THEN 0 ELSE current_section_index)
    /\ pc' = "s_loop"
    /\ UNCHANGED component_fields
    /\ UNCHANGED <<plan_approved, gathered, interactive_mode, state_fields,
                   is_interrupted, ret, entry, runs, counters>>

\* step 1: without a plan one is generated and the first section becomes the
\* active one; an interactive run then pauses until the plan is approved
run_plan ==
    /\ pc = "s_plan"
    /\ IF research_plan = <<>>
       THEN \E answer \in PlanAnswers(Titles, MaxSections) :
                research_plan' = generate_plan(answer)
       ELSE UNCHANGED research_plan
    /\ current_section_index' =
           (IF current_section_index < 0 THEN 0 ELSE current_section_index)
    /\ pc' = (IF interactive_mode /\ ~plan_approved /\ research_plan' # <<>>
              THEN "returned" ELSE "s_loop")
    /\ UNCHANGED component_fields
    /\ UNCHANGED <<plan_approved, gathered, interactive_mode, state_fields,
                   is_interrupted, ret, entry, runs, counters>>

\* the section the index points at, as a position of research_plan
ActiveSection == current_section_index + 1

\* a plan whose pending sections are all taken up at once
research_all_pending(plan) ==
    [i \in 1..Len(plan) |->
        IF plan[i].status = "pending"
        THEN [plan[i] EXCEPT !.status = "researching"] ELSE plan[i]]

\* the plan with its active section marked as being researched
Researching(plan) ==
    [plan EXCEPT ![ActiveSection].status =
        IF @ = "pending" THEN "researching" ELSE @]

\* a checkpoint that reads the flag and goes on whatever it is
goes_on_at_checkpoint(flag) == FALSE

\* what the checkpoint makes of the flag it has read: a set flag stops the loop
stops_at_checkpoint(flag) == flag

\* the checkpoint between two phases: an interruption goes to the report, a
\* proposed query or a pending selection pauses an interactive run, and
\* otherwise the next phase of the active section is chosen (steps 2 to 4
\* and 7)
run_checkpoint ==
    /\ pc = "s_loop"
    /\ interrupt_observed' = (interrupt_observed \/ is_interrupted)
    /\ IF stops_at_checkpoint(is_interrupted)
       THEN /\ pc' = "s_report"
            /\ UNCHANGED <<ret, research_plan, current_query, proposed_query>>
       ELSE IF current_section_index >= Len(research_plan)
       THEN /\ pc' = "s_report"
            /\ UNCHANGED <<ret, research_plan, current_query, proposed_query>>
       ELSE /\ research_plan' = Researching(research_plan)
            /\ IF Truthy(current_query)
               THEN /\ UNCHANGED <<current_query, proposed_query>>
                    /\ IF pending_source_selection /\ search_results # <<>>
                       THEN IF interactive_mode
                            THEN pc' = "returned" /\ ret' = NoReport
                            ELSE pc' = "s_summarize" /\ UNCHANGED ret
                       ELSE /\ pc' = (IF search_results = <<>>
                                         /\ new_information = None
                                      THEN "s_search" ELSE "s_post")
                            /\ UNCHANGED ret
               ELSE IF Truthy(proposed_query)
               THEN IF interactive_mode
                    THEN /\ pc' = "returned" /\ ret' = NoReport
                         /\ UNCHANGED <<current_query, proposed_query>>
                    ELSE /\ current_query' = proposed_query
                         /\ proposed_query' = None
                         /\ pc' = "s_search"
                         /\ UNCHANGED ret
               ELSE /\ pc' = "s_gen"
                    /\ UNCHANGED <<ret, current_query, proposed_query>>
    /\ UNCHANGED component_fields
    /\ UNCHANGED <<current_section_index, plan_approved, gathered,
                   interactive_mode, search_results, pending_source_selection,
                   completed_loops, new_information, accumulated_summary,
                   sources_gathered, final_report, is_interrupted, entry, runs,
                   searches, gens, reflections, summaries, cycle>>

\* what a refinement of the plan can answer with once section i is done
RefineAnswers(i, plan) ==
    IF i < Len(plan) /\ i < MaxSections
    THEN PlanAnswers(RefinedTitles, MaxSections - i)
    ELSE {[raised |-> TRUE, sections |-> <<>>]}

\* a refinement that replaces the whole plan by the answered sections
refine_plan_from_scratch(plan, i, answer) ==
    IF answer.raised \/ answer.sections = <<>> \/ i >= Len(plan) THEN plan
    ELSE NewSections(answer.sections)

\* _refine_plan: the sections up to the one just completed stay, the sections
\* after it are replaced by the answered ones; a raise or an empty answer
\* leaves the plan as it is
refine_plan(plan, i, answer) ==
    IF answer.raised \/ answer.sections = <<>> \/ i >= Len(plan) THEN plan
    ELSE SubSeq(plan, 1, i) \o NewSections(answer.sections)

\* a completion that leaves the summary and the sources in the scratch fields
conclude_section_keeps_scratch(answer) ==
    /\ research_plan' =
           refine_plan([research_plan EXCEPT
                            ![ActiveSection].status = "completed",
                            ![ActiveSection].summary = accumulated_summary,
                            ![ActiveSection].sources = sources_gathered],
                       ActiveSection, answer)
    /\ current_section_index' = current_section_index + 1
    /\ current_query' = None
    /\ proposed_query' = None
    /\ search_results' = <<>>
    /\ pending_source_selection' = FALSE
    /\ new_information' = None
    /\ completed_loops' = 0
    /\ UNCHANGED <<accumulated_summary, sources_gathered>>

\* step 6: the active section is completed with a snapshot of the summary and
\* the sources, the scratch fields are reset, the rest of the plan is refined
\* and the next section becomes the active one
conclude_section(answer) ==
    /\ research_plan' =
           refine_plan([research_plan EXCEPT
                            ![ActiveSection].status = "completed",
                            ![ActiveSection].summary = accumulated_summary,
                            ![ActiveSection].sources = sources_gathered],
                       ActiveSection, answer)
    /\ current_section_index' = current_section_index + 1
    /\ current_query' = None
    /\ proposed_query' = None
    /\ search_results' = <<>>
    /\ pending_source_selection' = FALSE
    /\ new_information' = None
    /\ accumulated_summary' = <<>>
    /\ sources_gathered' = <<>>
    /\ completed_loops' = 0

\* the initial query of the active section is proposed; a section for which
\* no query can be had is concluded
run_generate_query ==
    /\ pc = "s_gen"
    /\ pc' = "s_loop"
    /\ \E out \in SectionQueryOutcomes :
         LET q == generate_initial_query(out) IN
         IF Truthy(q)
         THEN /\ proposed_query' = q
              /\ current_query' = None
              /\ UNCHANGED <<research_plan, current_section_index,
                             search_results, pending_source_selection,
                             new_information, accumulated_summary,
                             sources_gathered, completed_loops>>
         ELSE \E answer \in RefineAnswers(ActiveSection, research_plan) :
                  conclude_section(answer)
    /\ UNCHANGED component_fields
    /\ UNCHANGED <<plan_approved, gathered, interactive_mode, final_report,
                   is_interrupted, ret, entry, runs, counters>>

\* step 3: the search of the current query; results are pending selection
run_search ==
    /\ pc = "s_search"
    /\ \E out \in SeqsUpTo(SectionURLs, MaxSectionResults) :
         /\ search_results' = em_web_search(current_query, out)
         /\ pending_source_selection' = (search_results' # <<>>)
         /\ pc' = (IF search_results' # <<>> THEN "s_loop" ELSE "s_post")
    /\ UNCHANGED component_fields
    /\ UNCHANGED <<plan_fields, interactive_mode, proposed_query, current_query,
                   completed_loops, new_information, accumulated_summary,
                   sources_gathered, final_report, is_interrupted, ret, entry,
                   runs, counters>>

\* step 4, automatic mode: all results are summarized
run_summarize ==
    /\ pc = "s_summarize"
    /\ \E out \in EMSummarizeOutcomes :
         /\ em_summarize_sources(search_results, out)
         /\ pc' = (IF em_summarize_raises(search_results, out)
                   THEN "raised" ELSE "s_loop")
    /\ UNCHANGED component_fields
    /\ UNCHANGED <<research_plan, current_section_index, plan_approved,
                   interactive_mode, proposed_query, current_query,
                   search_results, completed_loops, final_report,
                   is_interrupted, ret, entry, runs, counters>>

\* steps 5 and 6: the loop is counted, the reflection decides, and the section
\* either continues with the proposed query or is concluded
run_reflect ==
    /\ pc = "s_post"
    /\ pc' = "s_loop"
    /\ \E resp \in SectionReflections :
         LET evaluation == IF resp = ReflectionRaised THEN "CONCLUDE"
                           ELSE ReflectEvaluation(resp)
             next_query == IF resp = ReflectionRaised THEN None
                           ELSE ReflectNextQuery(resp)
         IN  IF completed_loops + 1 < MAX_RESEARCH_LOOPS
                /\ evaluation = "CONTINUE" /\ Truthy(next_query)
             THEN /\ completed_loops' = completed_loops + 1
                  /\ proposed_query' = next_query
                  /\ current_query' = None
                  /\ search_results' = <<>>
                  /\ new_information' = None
                  /\ UNCHANGED <<research_plan, current_section_index,
                                 pending_source_selection, accumulated_summary,
                                 sources_gathered>>
             ELSE \E answer \in RefineAnswers(ActiveSection, research_plan) :
                      conclude_section(answer)
    /\ UNCHANGED component_fields
    /\ UNCHANGED <<plan_approved, gathered, interactive_mode, final_report,
                   is_interrupted, ret, entry, runs, counters>>

\* step 7 and the end of the plan: the Reporter builds the report of the
\* sections as they are; a raise of its LLM call leaves run_loop as a raise
run_report ==
    /\ pc = "s_report"
    /\ \E out \in {"text", "raise"} :
         IF out = "raise"
         THEN pc' = "raised" /\ UNCHANGED <<final_report, ret>>
         ELSE /\ final_report' = finalize_report(research_plan)
              /\ ret' = finalize_report(research_plan)
              /\ pc' = "returned"
    /\ UNCHANGED component_fields
    /\ UNCHANGED <<plan_fields, interactive_mode, proposed_query, current_query,
                   search_results, pending_source_selection, completed_loops,
                   new_information, accumulated_summary, sources_gathered,
                   is_interrupted, entry, runs, counters>>

run_sections ==
    \/ run_call
    \/ run_plan
    \/ run_checkpoint
    \/ run_generate_query
    \/ run_search
    \/ run_summarize
    \/ run_reflect
    \/ run_report

----------------------------------------------------------------------------
(* The handlers of chainlit_app.py around the sectioned loop *)

\* handle_interactive_steps offers the plan approval first, the query
\* approval second, the source selection last
AwaitingQueryApproval ==
    /\ ~AwaitingPlanApproval
    /\ Truthy(proposed_query) /\ ~Truthy(current_query)

AwaitingSelection ==
    /\ ~AwaitingPlanApproval
    /\ ~AwaitingQueryApproval
    /\ pending_source_selection /\ search_results # <<>>

\* the buttons are there once run_loop has returned without a report
Paused ==
    /\ pc = "returned"
    /\ interactive_mode
    /\ final_report = NoReport

\* handle_interactive_steps, entered from a handler: automatic mode calls
\* run_loop, interactive mode calls it while there is no report and no
\* interruption
handle_interactive_steps ==
    IF ~interactive_mode' \/ (final_report = NoReport /\ ~is_interrupted)
    THEN ret' = NoReport /\ pc' = "s_plan"
    ELSE UNCHANGED <<ret, pc>>

\* "Approve & Start"
on_approve_plan ==
    /\ Paused
    /\ AwaitingPlanApproval
    /\ plan_approved' = TRUE
    /\ UNCHANGED component_fields
    /\ UNCHANGED <<research_plan, current_section_index, gathered,
                   interactive_mode, state_fields, is_interrupted, entry, runs,
                   counters>>
    /\ handle_interactive_steps

\* the query-approval button: the proposed query becomes the current one and
\* the handler goes back into run_loop
on_approve_query ==
    /\ Paused
    /\ AwaitingQueryApproval
    /\ current_query' = proposed_query
    /\ proposed_query' = None
    /\ UNCHANGED component_fields
    /\ UNCHANGED <<plan_fields, interactive_mode, search_results,
                   pending_source_selection, completed_loops, new_information,
                   accumulated_summary, sources_gathered, final_report,
                   is_interrupted, entry, runs, counters>>
    /\ handle_interactive_steps

\* the caller's summarization of the sources it selected, and the way back
\* into run_loop unless the summarization raised
summarize_and_resume(selected) ==
    \E out \in EMSummarizeOutcomes :
        /\ em_summarize_sources(selected, out)
        /\ UNCHANGED component_fields
        /\ UNCHANGED <<research_plan, current_section_index, plan_approved,
                       interactive_mode, proposed_query, current_query,
                       search_results, completed_loops, final_report,
                       is_interrupted, entry, runs, counters>>
        /\ IF em_summarize_raises(selected, out)
           THEN UNCHANGED <<ret, pc>>
           ELSE handle_interactive_steps

\* "All Sources"
on_summarize_all ==
    /\ Paused
    /\ AwaitingSelection
    /\ summarize_and_resume(search_results)

\* "Done Selecting", with the sources ticked so far, possibly none
on_summarize_selected ==
    /\ Paused
    /\ AwaitingSelection
    /\ \E selected \in Selections(search_results) \cup {<<>>} :
         summarize_and_resume(selected)

\* "Switch to Automatic": the plan counts as approved, a proposed query is
\* promoted, pending sources are all summarized, and run_loop goes on
on_switch_to_auto ==
    /\ Paused
    /\ AwaitingPlanApproval \/ AwaitingQueryApproval \/ AwaitingSelection
    /\ interactive_mode' = FALSE
    /\ plan_approved' = TRUE
    /\ IF Truthy(proposed_query) /\ ~Truthy(current_query)
       THEN current_query' = proposed_query /\ proposed_query' = None
       ELSE UNCHANGED <<current_query, proposed_query>>
    /\ UNCHANGED component_fields
    /\ UNCHANGED <<research_plan, current_section_index, search_results,
                   completed_loops, final_report, is_interrupted, entry, runs,
                   counters>>
    /\ IF pending_source_selection
       THEN \E out \in EMSummarizeOutcomes :
              /\ em_summarize_sources(search_results, out)
              /\ IF em_summarize_raises(search_results, out)
                 THEN UNCHANGED <<ret, pc>>
                 ELSE handle_interactive_steps
       ELSE /\ UNCHANGED <<new_information, pending_source_selection,
                           accumulated_summary, sources_gathered, gathered>>
            /\ handle_interactive_steps

NextSections ==
    \/ run_sections
    \/ on_approve_plan
    \/ on_approve_query
    \/ on_summarize_all
    \/ on_summarize_selected
    \/ on_switch_to_auto
    \/ on_stop

SpecSections == Init /\ [][NextSections]_vars

----------------------------------------------------------------------------
(* Properties of run_loop (core/research_loop.py) *)

\* C1: whatever the LLM, the search and the retrieval answer or raise, a call
\* of run_loop in automatic mode comes to its return, and what it returns is a
\* report, never None.
C1_AutomaticRunReturnsReport ==
    /\ [](~interactive_mode /\ pc = "returned" => ret # NoReport)
    /\ ((~interactive_mode /\ Running) ~> (pc = "returned"))

\* an automatic run that used all its loops, found nothing and still returned
\* a report
C1_Witness ==
    /\ ~interactive_mode
    /\ pc = "returned"
    /\ completed_loops = MAX_RESEARCH_LOOPS
    /\ accumulated_summary = <<>>
    /\ ret # NoReport

\* C2: current_query and proposed_query are never both non-empty: a query is
\* either awaiting approval or approved and being executed.
C2_QueryProposedOrCurrent == ~(Truthy(current_query) /\ Truthy(proposed_query))

\* reflection proposed a follow-up query and it was promoted
C2_Witness ==
    /\ reflections > 0
    /\ pc = "while"
    /\ Truthy(current_query)
    /\ proposed_query = None

\* C3: an interactive call entered without a current query returns None, and
\* it has issued no search, promoted no query and set no final report.
C3_PausesForQueryApproval ==
    (interactive_mode /\ pc = "returned" /\ ~Truthy(entry.current_query)) =>
        /\ ret = NoReport
        /\ searches = entry.searches
        /\ ~Truthy(current_query)
        /\ final_report = entry.final_report

\* C4: an interactive call entered with search results pending selection
\* returns None, and it has summarized nothing, counted no loop and run no
\* reflection.
C4_PausesForSourceSelection ==
    (interactive_mode /\ pc = "returned"
        /\ entry.pending_source_selection /\ entry.search_results # <<>>) =>
        /\ ret = NoReport
        /\ summaries = entry.summaries
        /\ completed_loops = entry.completed_loops
        /\ reflections = entry.reflections

\* C6: a call of run_loop that continues a paused interactive session redoes
\* nothing: no initial query is generated again, the current query the caller
\* set is still the current query when the loop is entered, and results
\* pending selection are not searched for again.
C6_ResumeRedoesNothing ==
    (interactive_mode /\ pc \notin {"idle", "generate"}) =>
        /\ (entry.gens > 0 => gens = entry.gens)
        /\ (Truthy(entry.current_query) /\ completed_loops = entry.completed_loops
               /\ pc = "while"
               => current_query = entry.current_query)
        /\ (entry.pending_source_selection /\ summaries = entry.summaries
               => searches = entry.searches)

----------------------------------------------------------------------------
(* Properties of the sectioned loop *)

AllSectionsAre(status) ==
    \A i \in 1..Len(research_plan) : research_plan[i].status = status

NoSectionCompleted ==
    \A i \in 1..Len(research_plan) : research_plan[i].status # "completed"

\* C5: in interactive mode, as long as a plan exists that is not approved,
\* run_loop does no more than return the paused signal: it is at no query,
\* search, summary or reflection step, no query is proposed or current, no
\* search result is there, every section is still pending, and what it
\* returned is None.
C5_PlanApprovalGate ==
    (interactive_mode /\ research_plan # <<>> /\ ~plan_approved) =>
        /\ pc \in {"idle", "s_plan", "returned"}
        /\ (pc = "returned" => ret = NoReport)
        /\ proposed_query = None /\ current_query = None
        /\ search_results = <<>>
        /\ AllSectionsAre("pending")

\* an interactive run returned the paused signal with a plan of several
\* sections awaiting approval
C5_Witness ==
    /\ interactive_mode
    /\ Len(research_plan) >= 2
    /\ ~plan_approved
    /\ pc = "returned"
    /\ ret = NoReport

\* C7: a checkpoint that finds is_interrupted set before any section is
\* completed hands over to the Reporter, and when run_loop returns from the
\* Reporter's step after such an interruption, final_report is not None and
\* is what run_loop returns.
C7_InterruptionStillReports ==
    [][/\ (pc = "s_loop" /\ is_interrupted /\ NoSectionCompleted
              => pc' = "s_report")
       /\ (pc = "s_report" /\ pc' = "returned"
              /\ is_interrupted /\ NoSectionCompleted
              => final_report' # NoReport /\ ret' = final_report')]_vars

\* a run interrupted while its first section was being researched has
\* returned a report
C7_Witness ==
    /\ is_interrupted
    /\ pc = "returned"
    /\ research_plan # <<>>
    /\ current_section_index = 0
    /\ research_plan[1].status = "researching"
    /\ final_report # NoReport
    /\ ret = final_report

StatusRank(status) ==
    CASE status = "pending" -> 0
      [] status = "researching" -> 1
      [] status = "completed" -> 2

\* C9: in every step, a section's status does not move back along pending,
\* researching, completed, and a completed section stays in the plan with the
\* same title, summary, sources and status.
C9_SectionsMoveForward ==
    [][\A i \in 1..Len(research_plan) :
          /\ i <= Len(research_plan') =>
                StatusRank(research_plan'[i].status)
                    >= StatusRank(research_plan[i].status)
          /\ research_plan[i].status = "completed" =>
                /\ i <= Len(research_plan')
                /\ research_plan'[i] = research_plan[i]]_vars

\* the first section was completed with a summary, the rest of the plan was
\* refined, and a refined section has been researched and completed after it
C9_Witness ==
    /\ Len(research_plan) >= 2
    /\ research_plan[1].status = "completed"
    /\ research_plan[1].title \in Titles
    /\ research_plan[1].summary # <<>>
    /\ research_plan[2].title \in RefinedTitles
    /\ research_plan[2].status = "completed"

\* C10: when a run in automatic mode returns and no interruption was
\* requested, every section of the plan is completed, current_section_index
\* is the number of sections, and the returned report has the "## Sources"
\* listing if a source was ever gathered.
C10_AutomaticRunCompletesPlan ==
    [][(pc # "returned" /\ pc' = "returned"
           /\ ~interactive_mode' /\ ~is_interrupted')
       => /\ \A i \in 1..Len(research_plan') :
                research_plan'[i].status = "completed"
          /\ current_section_index' = Len(research_plan')
          /\ (gathered' # {} => HasSourcesListing(ret'))]_vars

\* an automatic run has returned the report of a plan of several sections,
\* the listing included
C10_Witness ==
    /\ ~interactive_mode
    /\ ~is_interrupted
    /\ pc = "returned"
    /\ Len(research_plan) >= 2
    /\ AllSectionsAre("completed")
    /\ current_section_index = Len(research_plan)
    /\ gathered # {}
    /\ HasSourcesListing(ret)

----------------------------------------------------------------------------
(* The components called on their own: each call draws what the LLM or   *)
(* the network answers with and records what the component returned.     *)

\* ResearchPlanner.generate_plan, called with the session's topic
call_generate_plan ==
    /\ \E answer \in PlanAnswers(Titles, MaxSections) :
         /\ plan_answer' = answer
         /\ plan_result' = generate_plan(answer)
    /\ component' = "generate_plan"
    /\ UNCHANGED <<loop_fields, reflector_fields, graph_fields,
                   cache_fields, chunk_fields, client_fields>>
    /\ UNCHANGED utility_fields

\* ResearchReflector.reflect_and_decide: a raising LLM call propagates
call_reflect_and_decide ==
    /\ \E resp \in SectionReflections :
         /\ reflect_response' = resp
         /\ reflect_result' =
                IF resp = ReflectionRaised
                THEN [raised |-> TRUE, evaluation |-> None, next_query |-> None]
                ELSE [raised |-> FALSE, evaluation |-> ReflectEvaluation(resp),
                      next_query |-> ReflectNextQuery(resp)]
    /\ component' = "reflect_and_decide"
    /\ UNCHANGED <<loop_fields, planner_fields, graph_fields,
                   cache_fields, chunk_fields, client_fields>>
    /\ UNCHANGED utility_fields

NextComponents ==
    \/ call_generate_plan
    \/ call_reflect_and_decide

SpecComponents == Init /\ [][NextComponents]_vars

----------------------------------------------------------------------------
(* Claims about the components *)

\* C11: whatever the structured plan request does, answer with sections,
\* answer with an empty list of sections, or raise, the plan generate_plan
\* returns has at least one section.
C11_PlanNeverEmpty ==
    component = "generate_plan" => plan_result # <<>>

\* C12: when the structured plan request raises, generate_plan returns
\* exactly one section: titled "General Research", its description naming
\* the topic, pending, with an empty summary and no sources.
C12_FallbackPlan ==
    component = "generate_plan" /\ plan_answer.raised =>
        /\ Len(plan_result) = 1
        /\ plan_result[1].title = GeneralResearch
        /\ research_topic \in Range(plan_result[1].description)
        /\ plan_result[1].status = "pending"
        /\ plan_result[1].summary = <<>>
        /\ plan_result[1].sources = <<>>

C12_Witness ==
    /\ component = "generate_plan"
    /\ plan_answer.raised
    /\ Len(plan_result) = 1

\* C16: for every reflection response without an EVALUATION: line,
\* reflect_and_decide returns CONCLUDE with a None next query, whatever
\* else the response holds, a QUERY: line with a query included.
C16_NoEvaluationConcludes ==
    component = "reflect_and_decide" /\ reflect_response.evaluation = "absent" =>
        /\ ~reflect_result.raised
        /\ reflect_result.evaluation = "CONCLUDE"
        /\ reflect_result.next_query = None

----------------------------------------------------------------------------
(* The knowledge graph: ResearchReflector.extract_knowledge_graph and    *)
(* _merge_knowledge_graph (core/reflection.py) on the node and edge      *)
(* lists of ResearchState.  The merge is followed one loop round at a    *)
(* time; the batch the LLM answered with is drawn as the rounds go.      *)

MaxBatch == 2
MaxExtractions == 2

\* decimal strings, as mention_count is stored
Decimal == <<"1", "2", "3", "4", "5", "6", "7", "8", "9", "10", "11", "12",
             "13", "14", "15", "16">>
IsDecimal(s) == \E n \in 1..Len(Decimal) : Decimal[n] = s
IntOf(s) == CHOOSE n \in 1..Len(Decimal) : Decimal[n] = s
StrOf(n) == Decimal[n]

\* properties the LLM may give a node: without a mention_count key, or
\* with one of its own
NoKey == "absent"
AnsweredCounts == {NoKey, "1"}
EdgeTargets == {"n1"}
EdgeLabels == {"rel"}

\* the nodes and edges of a KnowledgeGraphModel.  has_properties tells
\* whether the KGNode and KGEdge objects of the model carry the properties
\* and source_urls attributes that the merge reads; KGNode and KGEdge of
\* core/state.py do not declare them, and a node without them carries no
\* mention_count either.
AnsweredNodes(has_properties) ==
    [id : NodeIds,
     mention_count : IF has_properties THEN AnsweredCounts ELSE {NoKey}]
AnsweredEdges == [source : NodeIds, target : EdgeTargets, label : EdgeLabels]

IndexOfNode(nodes, id) == CHOOSE i \in 1..Len(nodes) : nodes[i].id = id

EdgeKey(e) == <<e.source, e.target, e.label>>

\* the mention_count an already known node gets: the properties of the new
\* node are merged in first, then the count is read back and incremented
NextMentionCount(existing, new_node) ==
    LET merged == IF new_node.mention_count # NoKey
                  THEN new_node.mention_count ELSE existing.mention_count
    IN  IF IsDecimal(merged) THEN StrOf(IntOf(merged) + 1) ELSE "2"

\* a node loop that appends every node of the model
merge_node_unindexed(nodes, new_node, has_properties) ==
    [nodes |-> Append(nodes, [id |-> new_node.id, mention_count |-> "1"]),
     raised |-> FALSE]

\* one round of the node loop of _merge_knowledge_graph; raised when an
\* attribute the model's node lacks is read
merge_node(nodes, new_node, has_properties) ==
    IF \E i \in 1..Len(nodes) : nodes[i].id = new_node.id
    THEN IF has_properties
         THEN LET i == IndexOfNode(nodes, new_node.id)
              IN  [nodes |-> [nodes EXCEPT ![i].mention_count =
                                    NextMentionCount(nodes[i], new_node)],
                   raised |-> FALSE]
         ELSE [nodes |-> nodes, raised |-> TRUE]
    ELSE [nodes |-> Append(nodes, [id |-> new_node.id,
                                   mention_count |-> "1"]),
          raised |-> FALSE]

\* one round of the edge loop
merge_edge(edges, new_edge, has_properties) ==
    IF \E i \in 1..Len(edges) : EdgeKey(edges[i]) = EdgeKey(new_edge)
    THEN [edges |-> edges, raised |-> ~has_properties]
    ELSE [edges |-> Append(edges, new_edge), raised |-> FALSE]

KGIdle == [pc |-> "idle", has_properties |-> FALSE, merged |-> 0]

\* extract_knowledge_graph up to the structured call: nothing is done for a
\* text under 20 characters, a raising call is logged
extract_call ==
    /\ kg_call.pc = "idle"
    /\ extractions < MaxExtractions
    /\ extractions' = extractions + 1
    /\ component' = "extract_knowledge_graph"
    /\ kg_before' = [nodes |-> knowledge_graph_nodes,
                     edges |-> knowledge_graph_edges]
    /\ \/ kg_outcome' = "skipped" /\ kg_call' = KGIdle
       \/ kg_outcome' = "call_raised" /\ kg_call' = KGIdle
       \/ \E h \in BOOLEAN :
            /\ kg_call' = [pc |-> "nodes", has_properties |-> h, merged |-> 0]
            /\ kg_outcome' = "merging"
    /\ UNCHANGED <<knowledge_graph_nodes, knowledge_graph_edges,
                   kg_presented>>
    /\ UNCHANGED <<loop_fields, planner_fields, reflector_fields,
                   cache_fields, chunk_fields, client_fields>>
    /\ UNCHANGED utility_fields

\* the node loop: one more node of the model, or on to the edges
extract_merge_node ==
    /\ kg_call.pc = "nodes"
    /\ \/ /\ kg_call.merged < MaxBatch
          /\ \E new_node \in AnsweredNodes(kg_call.has_properties) :
               LET r == merge_node(knowledge_graph_nodes, new_node,
                                   kg_call.has_properties)
               IN  /\ knowledge_graph_nodes' = r.nodes
                   /\ kg_presented' =
                         [kg_presented EXCEPT ![new_node.id] = @ + 1]
                   /\ IF r.raised
                      THEN kg_call' = KGIdle /\ kg_outcome' = "merge_raised"
                      ELSE /\ kg_call' = [kg_call EXCEPT !.merged = @ + 1]
                           /\ UNCHANGED kg_outcome
       \/ /\ kg_call' = [kg_call EXCEPT !.pc = "edges", !.merged = 0]
          /\ UNCHANGED <<knowledge_graph_nodes, kg_presented, kg_outcome>>
    /\ UNCHANGED <<knowledge_graph_edges, kg_before, extractions, component>>
    /\ UNCHANGED <<loop_fields, planner_fields, reflector_fields,
                   cache_fields, chunk_fields, client_fields>>
    /\ UNCHANGED utility_fields

\* the edge loop: one more edge of the model, or the merge is through
extract_merge_edge ==
    /\ kg_call.pc = "edges"
    /\ \/ /\ kg_call.merged < MaxBatch
          /\ \E new_edge \in AnsweredEdges :
               LET r == merge_edge(knowledge_graph_edges, new_edge,
                                   kg_call.has_properties)
               IN  /\ knowledge_graph_edges' = r.edges
                   /\ IF r.raised
                      THEN kg_call' = KGIdle /\ kg_outcome' = "merge_raised"
                      ELSE /\ kg_call' = [kg_call EXCEPT !.merged = @ + 1]
                           /\ UNCHANGED kg_outcome
       \/ /\ kg_call' = KGIdle
          /\ kg_outcome' = "merged"
          /\ UNCHANGED knowledge_graph_edges
    /\ UNCHANGED <<knowledge_graph_nodes, kg_presented, kg_before,
                   extractions, component>>
    /\ UNCHANGED <<loop_fields, planner_fields, reflector_fields,
                   cache_fields, chunk_fields, client_fields>>
    /\ UNCHANGED utility_fields

extract_knowledge_graph ==
    \/ extract_call
    \/ extract_merge_node
    \/ extract_merge_edge

NextGraph ==
    \/ extract_knowledge_graph

SpecGraph == Init /\ [][NextGraph]_vars

----------------------------------------------------------------------------
(* Claims about the knowledge graph *)

\* C13: after any sequence of merges into a graph that began empty, no two
\* nodes have the same id and no two edges the same (source, target,
\* label), also when one batch repeats an id or an edge key.
C13_GraphKeysUnique ==
    /\ \A i, j \in 1..Len(knowledge_graph_nodes) :
         knowledge_graph_nodes[i].id = knowledge_graph_nodes[j].id => i = j
    /\ \A i, j \in 1..Len(knowledge_graph_edges) :
         EdgeKey(knowledge_graph_edges[i]) = EdgeKey(knowledge_graph_edges[j])
            => i = j

\* two merges went through, one node id was given to them three times, so
\* at least twice in one batch, and both ids and both edge keys are in
C13_Witness ==
    /\ extractions = 2
    /\ kg_call.pc = "idle"
    /\ kg_outcome = "merged"
    /\ Len(knowledge_graph_nodes) = 2
    /\ Len(knowledge_graph_edges) = 2
    /\ \E id \in NodeIds : kg_presented[id] >= 3

\* C14: the mention_count of every node is the number of times its id was
\* given to the merge: "1" when first added, one more with every later
\* extraction of the id, whatever properties the extracted node carries.
C14_MentionCountCounts ==
    \A i \in 1..Len(knowledge_graph_nodes) :
        knowledge_graph_nodes[i].mention_count
            = StrOf(kg_presented[knowledge_graph_nodes[i].id])

\* C15: a failed extraction, whether the structured call raised or the
\* merge raised, leaves the node and the edge list as they were before it.
C15_FailedExtractionChangesNothing ==
    kg_call.pc = "idle" /\ kg_outcome \in {"call_raised", "merge_raised"} =>
        /\ knowledge_graph_nodes = kg_before.nodes
        /\ knowledge_graph_edges = kg_before.edges

----------------------------------------------------------------------------
(* The per-link content cache ResearchState.fetched_content, as the      *)
(* retrieval loop of ExecutionManager.summarize_sources                  *)
(* (core/execution.py) and that of ResearchLoop._summarize_sources       *)
(* (core/research_loop.py) use it.  One action is one round of the loop, *)
(* for one selected result; a session runs one of the two loops, with    *)
(* USE_SNIPPETS_ONLY_MODE on or off.                                     *)

MaxRetrievals == 2

\* the snippet of a search result and what retrieve_and_extract returns;
\* it returns "" for every failure
Snippets == {"", "snippet"}
Retrieved == {"", "text"}
NotCached == "absent"

CacheSessions ==
    [owner : {"ExecutionManager", "ResearchLoop"}, snippets_only : BOOLEAN]

\* a session begins with the first summarization
cache_session_begins(session) ==
    IF cache_session.owner = "none" THEN cache_session' = session
    ELSE session = cache_session /\ UNCHANGED cache_session

\* ExecutionManager.summarize_sources, one round of "for result in
\* selected_results": a link not in the cache is retrieved, the snippet
\* standing in for empty content, and the content is kept
em_retrieve ==
    /\ \E session \in CacheSessions :
         /\ session.owner = "ExecutionManager"
         /\ cache_session_begins(session)
         /\ \E link \in URLs, snippet \in Snippets, content \in Retrieved :
              IF fetched_content[link] # NotCached
              THEN UNCHANGED <<fetched_content, retrievals>>
              ELSE IF session.snippets_only
              THEN /\ fetched_content' =
                        [fetched_content EXCEPT ![link] = snippet]
                   /\ UNCHANGED retrievals
              ELSE /\ retrievals' = [retrievals EXCEPT ![link] = @ + 1]
                   /\ fetched_content' =
                        [fetched_content EXCEPT
                            ![link] = IF content # "" THEN content
                                      ELSE snippet]
    /\ component' = "summarize_sources"
    /\ UNCHANGED <<loop_fields, planner_fields, reflector_fields,
                   graph_fields, chunk_fields, client_fields>>
    /\ UNCHANGED utility_fields

\* ResearchLoop._summarize_sources, one round of its loop: a link is
\* retrieved when it is not in the cache or the content kept for it is
\* empty
legacy_retrieve ==
    /\ \E session \in CacheSessions :
         /\ session.owner = "ResearchLoop"
         /\ cache_session_begins(session)
         /\ \E link \in URLs, snippet \in Snippets, content \in Retrieved :
              IF fetched_content[link] \notin {NotCached, ""}
              THEN UNCHANGED <<fetched_content, retrievals>>
              ELSE IF session.snippets_only
              THEN /\ fetched_content' =
                        [fetched_content EXCEPT ![link] = snippet]
                   /\ UNCHANGED retrievals
              ELSE /\ retrievals[link] < MaxRetrievals
                   /\ retrievals' = [retrievals EXCEPT ![link] = @ + 1]
                   /\ fetched_content' =
                        [fetched_content EXCEPT
                            ![link] = IF content # "" THEN content
                                      ELSE snippet]
    /\ component' = "_summarize_sources"
    /\ UNCHANGED <<loop_fields, planner_fields, reflector_fields,
                   graph_fields, chunk_fields, client_fields>>
    /\ UNCHANGED utility_fields

NextCache ==
    \/ em_retrieve
    \/ legacy_retrieve

SpecCache == Init /\ [][NextCache]_vars

\* C19: in one session the content retriever is called at most once for
\* any link, also when the first retrieval failed or returned nothing and
\* when the link comes up again in a later summarization.
C19_RetrievedAtMostOnce ==
    \A link \in URLs : retrievals[link] <= 1

----------------------------------------------------------------------------
(* The chunk phase of ExecutionManager.summarize_sources                 *)
(* (core/execution.py): one summarize_chunk task per chunk, gathered,    *)
(* with an asyncio.Semaphore around the LLM call.  A task is "new" until *)
(* it first runs, "waiting" while queued on the semaphore, "calling"     *)
(* inside "async with semaphore", then "done".                           *)

Chunks == 1..chunk_count
Calling == {i \in Chunks : chunk_pc[i] = "calling"}
Waiting == {i \in Chunks : chunk_pc[i] = "waiting"}
Done == {i \in Chunks : chunk_pc[i] = "done"}

\* what generate_text gives a chunk task: a summary, an empty text, a raise
ChunkOutcomes == {"summary", "empty", "raised"}

\* the chunks of s whose result is a summary, in the order of s
RECURSIVE Summarized(_, _)
Summarized(s, result) ==
    IF s = <<>> THEN <<>>
    ELSE IF result[Head(s)] = "summary"
         THEN <<Head(s)>> \o Summarized(Tail(s), result)
         ELSE Summarized(Tail(s), result)

\* a collection that takes the results as the tasks end
gather_as_completed(count, order) == order

\* asyncio.gather: the results in the order the tasks were passed
gather(count, order) == [i \in 1..count |-> i]

\* "summaries = await asyncio.gather(*[summarize_chunk(info) ...])" begins:
\* all_chunks_info holds the chunks of all selected sources, in order
summarize_submit ==
    /\ summarize_pc = "idle"
    /\ \E count \in 1..MaxChunks :
         /\ chunk_count' = count
         /\ chunk_pc' = [i \in 1..MaxChunks |->
                            IF i <= count THEN "new" ELSE "unused"]
    /\ summarize_pc' = "gathering"
    /\ semaphore' = MAX_CONCURRENT_CHUNKS
    /\ component' = "summarize_sources"
    /\ UNCHANGED <<chunk_result, finished, all_chunk_summaries>>
    /\ UNCHANGED <<loop_fields, planner_fields, reflector_fields,
                   graph_fields, cache_fields, client_fields>>
    /\ UNCHANGED utility_fields

\* a task that takes the semaphore whatever its value
chunk_start_unbounded(i) ==
    /\ chunk_pc[i] = "new"
    /\ chunk_pc' = [chunk_pc EXCEPT ![i] = "calling"]
    /\ semaphore' = semaphore - 1
    /\ UNCHANGED <<chunk_result, finished>>
    /\ UNCHANGED <<summarize_pc, chunk_count, all_chunk_summaries, component>>
    /\ UNCHANGED <<loop_fields, planner_fields, reflector_fields,
                   graph_fields, cache_fields, client_fields>>
    /\ UNCHANGED utility_fields

\* summarize_chunk up to "async with semaphore": None when the session is
\* interrupted, else the semaphore is taken, or waited for when it is 0
chunk_start(i) ==
    /\ chunk_pc[i] = "new"
    /\ IF is_interrupted
       THEN /\ chunk_pc' = [chunk_pc EXCEPT ![i] = "done"]
            /\ chunk_result' = [chunk_result EXCEPT ![i] = "none"]
            /\ finished' = Append(finished, i)
            /\ UNCHANGED semaphore
       ELSE IF semaphore > 0
       THEN /\ chunk_pc' = [chunk_pc EXCEPT ![i] = "calling"]
            /\ semaphore' = semaphore - 1
            /\ UNCHANGED <<chunk_result, finished>>
       ELSE /\ chunk_pc' = [chunk_pc EXCEPT ![i] = "waiting"]
            /\ UNCHANGED <<chunk_result, finished, semaphore>>
    /\ UNCHANGED <<summarize_pc, chunk_count, all_chunk_summaries, component>>
    /\ UNCHANGED <<loop_fields, planner_fields, reflector_fields,
                   graph_fields, cache_fields, client_fields>>
    /\ UNCHANGED utility_fields

\* a waiting task gets the semaphore
chunk_acquire(i) ==
    /\ chunk_pc[i] = "waiting"
    /\ semaphore > 0
    /\ chunk_pc' = [chunk_pc EXCEPT ![i] = "calling"]
    /\ semaphore' = semaphore - 1
    /\ UNCHANGED <<chunk_result, finished>>
    /\ UNCHANGED <<summarize_pc, chunk_count, all_chunk_summaries, component>>
    /\ UNCHANGED <<loop_fields, planner_fields, reflector_fields,
                   graph_fields, cache_fields, client_fields>>
    /\ UNCHANGED utility_fields

\* the LLM call of a task returns or raises; the semaphore is released
chunk_finish(i) ==
    /\ chunk_pc[i] = "calling"
    /\ \E out \in ChunkOutcomes :
         chunk_result' = [chunk_result EXCEPT ![i] = out]
    /\ chunk_pc' = [chunk_pc EXCEPT ![i] = "done"]
    /\ semaphore' = semaphore + 1
    /\ finished' = Append(finished, i)
    /\ UNCHANGED <<summarize_pc, chunk_count, all_chunk_summaries, component>>
    /\ UNCHANGED <<loop_fields, planner_fields, reflector_fields,
                   graph_fields, cache_fields, client_fields>>
    /\ UNCHANGED utility_fields

\* gather returns when every task is done, or raises with the first task
\* that raised; then the falsy results are dropped, and the summaries are
\* consolidated unless the session was interrupted or none is left
summarize_gather ==
    /\ summarize_pc = "gathering"
    /\ IF \E i \in Chunks : chunk_result[i] = "raised"
       THEN summarize_pc' = "raised" /\ UNCHANGED all_chunk_summaries
       ELSE /\ Done = Chunks
            /\ all_chunk_summaries' =
                  Summarized(gather(chunk_count, finished), chunk_result)
            /\ summarize_pc' =
                  IF is_interrupted THEN "interrupted"
                  ELSE IF all_chunk_summaries' = <<>> THEN "nothing"
                  ELSE "consolidated"
    /\ UNCHANGED <<chunk_count, chunk_pc, chunk_result, semaphore, finished,
                   component>>
    /\ UNCHANGED <<loop_fields, planner_fields, reflector_fields,
                   graph_fields, cache_fields, client_fields>>
    /\ UNCHANGED utility_fields

\* the stop handler sets is_interrupted while the tasks run
chunks_interrupt ==
    /\ summarize_pc = "gathering"
    /\ ~is_interrupted
    /\ is_interrupted' = TRUE
    /\ UNCHANGED <<interactive_mode, state_fields, pc, ret, entry, runs,
                   counters, plan_fields>>
    /\ UNCHANGED component_fields

chunk_task ==
    \E i \in 1..MaxChunks :
        \/ chunk_start(i)
        \/ chunk_acquire(i)
        \/ chunk_finish(i)

NextChunks ==
    \/ summarize_submit
    \/ chunk_task
    \/ summarize_gather
    \/ chunks_interrupt

SpecChunks == Init /\ [][NextChunks]_vars

\* the event loop runs every task that can run, and every LLM call ends
LiveSpecChunks ==
    /\ Init
    /\ [][NextChunks]_vars
    /\ \A i \in 1..MaxChunks :
         /\ WF_vars(chunk_start(i))
         /\ WF_vars(chunk_acquire(i))
         /\ WF_vars(chunk_finish(i))

\* C17: in every interleaving of the chunk tasks, at most
\* MAX_CONCURRENT_CHUNKS chunk LLM calls are in flight at once, and every
\* submitted chunk is eventually processed: its task ends, with its LLM
\* call made unless the session was interrupted.
C17_BoundedAndProcessed ==
    /\ [](Cardinality(Calling) <= MAX_CONCURRENT_CHUNKS)
    /\ \A i \in 1..MaxChunks :
         (chunk_pc[i] = "new") ~>
            (chunk_pc[i] = "done"
                /\ (chunk_result[i] = "none" => is_interrupted))

\* the semaphore is exhausted while a task waits for it
C17_Witness ==
    /\ chunk_count > MAX_CONCURRENT_CHUNKS
    /\ Cardinality(Calling) = MAX_CONCURRENT_CHUNKS
    /\ Waiting # {}

\* C18: the summaries handed to the consolidation call are in the order
\* the chunks were submitted in, whatever order the tasks ended in.
C18_SubmissionOrder ==
    summarize_pc = "consolidated" =>
        /\ \A j, k \in 1..Len(all_chunk_summaries) :
             j < k => all_chunk_summaries[j] < all_chunk_summaries[k]
        /\ Range(all_chunk_summaries)
             = {i \in Chunks : chunk_result[i] = "summary"}

\* summaries are consolidated after a later chunk ended before an earlier
C18_Witness ==
    /\ summarize_pc = "consolidated"
    /\ Len(all_chunk_summaries) >= 2
    /\ \E j, k \in 1..Len(finished) :
         /\ j < k
         /\ finished[j] > finished[k]
         /\ chunk_result[finished[j]] = "summary"
         /\ chunk_result[finished[k]] = "summary"

----------------------------------------------------------------------------
(* The LLM client (tools/llm_client.py): generate_text hands the prompt  *)
(* to the provider.  Time is counted in seconds.                         *)

MaxClock == 3
MaxCalls == 3

\* Configuration.LLM_RATE_LIMIT_RPM, requests per minute
LLM_RATE_LIMIT_RPM == 60

\* a second passes
client_tick ==
    /\ clock < MaxClock
    /\ clock' = clock + 1
    /\ UNCHANGED <<provider_calls, component>>
    /\ UNCHANGED <<loop_fields, planner_fields, reflector_fields,
                   graph_fields, cache_fields, chunk_fields>>
    /\ UNCHANGED utility_fields

\* LLMClient.generate_text with the openai or azure_openai provider: the
\* prompt goes to self.llm.invoke as soon as the call is made
generate_text ==
    /\ Len(provider_calls) < MaxCalls
    /\ provider_calls' = Append(provider_calls, clock)
    /\ component' = "generate_text"
    /\ UNCHANGED clock
    /\ UNCHANGED <<loop_fields, planner_fields, reflector_fields,
                   graph_fields, cache_fields, chunk_fields>>
    /\ UNCHANGED utility_fields

NextClient ==
    \/ client_tick
    \/ generate_text

SpecClient == Init /\ [][NextClient]_vars

\* C20: with LLM_RATE_LIMIT_RPM > 0 the provider calls are released one
\* at a time, any two consecutive ones at least 60 / RPM seconds apart.
C20_CallsSpaced ==
    LLM_RATE_LIMIT_RPM > 0 =>
        \A k \in 1..Len(provider_calls) - 1 :
            provider_calls[k + 1] - provider_calls[k]
                >= 60 \div LLM_RATE_LIMIT_RPM

----------------------------------------------------------------------------
(* Structured-output recovery of the LLM client: _robust_json_extract    *)
(* scans the provider's text for balanced {...} and [...] substrings,    *)
(* decodes each on its own, merges what decoded and validates it against *)
(* KnowledgeGraphModel; _partial_model_recovery validates the elements   *)
(* of the list fields one by one.  The text is read one substring at a   *)
(* time.                                                                 *)

\* balanced substrings one response text may hold
MaxFragments == 2
\* elements one list handed to _partial_model_recovery may hold
MaxElements == 2
\* elements one list decoded from the text may hold
MaxDecoded == 1

\* the mandatory fields of KGNode and of KGEdge
NodeKeys == {"id", "label", "type"}
EdgeKeys == {"source", "target", "label"}

\* decoded list elements: the name tells them apart, keys are the fields
\* the element carries
RawElements == {[name |-> "valid_1", keys |-> NodeKeys],
                [name |-> "valid_2", keys |-> NodeKeys],
                [name |-> "invalid_1", keys |-> {"id"}],
                [name |-> "v1", keys |-> EdgeKeys]}
ElementLists == SeqsUpTo(RawElements, MaxElements)
DecodedLists == SeqsUpTo(RawElements, MaxDecoded)

\* a stretch of the text: plain text without brackets, a balanced substring
\* that does not decode, a decoded object with one key (of the schema or
\* not), a decoded list
Fragments ==
    {[shape |-> sh, key |-> NoKey, value |-> <<>>] :
        sh \in {"text", "undecodable"}}
    \cup {[shape |-> "object", key |-> "other", value |-> <<>>]}
    \cup {[shape |-> "object", key |-> k, value |-> l] :
            k \in {"nodes", "edges"}, l \in DecodedLists}
    \cup {[shape |-> "list", key |-> NoKey, value |-> l] : l \in DecodedLists}

\* a field of a decoded object: a key that is missing, or its list
Missing == [present |-> FALSE, items |-> <<>>]
Present(l) == [present |-> TRUE, items |-> l]

\* validation of one element against the sub-model of the field
Validates(field, e) ==
    IF field = "nodes" THEN NodeKeys \subseteq e.keys
    ELSE EdgeKeys \subseteq e.keys

\* KnowledgeGraphModel.model_validate: both fields present, every element valid
FullyValid(data) ==
    /\ data.nodes.present
    /\ data.edges.present
    /\ \A i \in 1..Len(data.nodes.items) :
          Validates("nodes", data.nodes.items[i])
    /\ \A i \in 1..Len(data.edges.items) :
          Validates("edges", data.edges.items[i])

\* the keys of a decoded object go into the merged object; a decoded list
\* goes to the first field of the schema that is a list
merge_fragment(data, f) ==
    IF f.shape = "object" /\ f.key \in {"nodes", "edges"}
    THEN [data EXCEPT ![f.key] = Present(f.value)]
    ELSE IF f.shape = "list" THEN [data EXCEPT !.nodes = Present(f.value)]
    ELSE data

NoData == [nodes |-> Missing, edges |-> Missing]
MinimalInstance == [raised |-> FALSE, nodes |-> <<>>, edges |-> <<>>]
ValidationRaised == [raised |-> TRUE, nodes |-> <<>>, edges |-> <<>>]

\* a list field that loses all its elements as soon as one of them fails
keep_if_all_valid(field, value) ==
    IF \A i \in 1..Len(value.items) : Validates(field, value.items[i])
    THEN value.items
    ELSE <<>>

\* the elements of a list field that validate, in their order
keep_valid(field, value) ==
    SelectSeq(value.items, LAMBDA e : Validates(field, e))

\* _partial_model_recovery(data, KnowledgeGraphModel)
partial_model_recovery(data) ==
    [raised |-> FALSE,
     nodes |-> keep_valid("nodes", data.nodes),
     edges |-> keep_valid("edges", data.edges)]

\* the end of the chain with the failed validation passed on to the caller
validate_or_raise(data) ==
    IF FullyValid(data)
    THEN [raised |-> FALSE, nodes |-> data.nodes.items,
          edges |-> data.edges.items]
    ELSE ValidationRaised

\* the end of the chain: the merged object if it validates, else field-level
\* recovery, else the minimal instance
validate_or_recover(data) ==
    IF FullyValid(data)
    THEN [raised |-> FALSE, nodes |-> data.nodes.items,
          edges |-> data.edges.items]
    ELSE IF data = NoData THEN MinimalInstance
    ELSE partial_model_recovery(data)

RecoveryIdle == [pc |-> "idle", fragments |-> 0, decoded |-> FALSE]

\* _robust_json_extract(text, KnowledgeGraphModel) is called; recovery_result
\* holds nothing of an earlier call
robust_json_extract_call ==
    /\ recovery_call.pc \in {"idle", "done"}
    /\ recovery_call' = [RecoveryIdle EXCEPT !.pc = "scanning"]
    /\ recovery_data' = NoData
    /\ component' = "robust_json_extract"
    /\ recovery_result' = MinimalInstance
    /\ UNCHANGED <<loop_fields, first_fields, beside_recovery>>

\* the scan meets the next stretch of the text
robust_json_extract_scan ==
    /\ recovery_call.pc = "scanning"
    /\ recovery_call.fragments < MaxFragments
    /\ \E f \in Fragments :
        /\ recovery_data' = merge_fragment(recovery_data, f)
        /\ recovery_call' =
            [recovery_call EXCEPT
                !.fragments = @ + 1,
                !.decoded = @ \/ f.shape \in {"object", "list"}]
    /\ UNCHANGED <<recovery_result, component>>
    /\ UNCHANGED <<loop_fields, first_fields, beside_recovery>>

\* the text is at its end: validate what was merged
robust_json_extract_return ==
    /\ recovery_call.pc = "scanning"
    /\ recovery_result' = validate_or_recover(recovery_data)
    /\ recovery_call' = [recovery_call EXCEPT !.pc = "done"]
    /\ UNCHANGED <<recovery_data, component>>
    /\ UNCHANGED <<loop_fields, first_fields, beside_recovery>>

\* _partial_model_recovery called on a decoded object by a client that did
\* nothing else yet, as the tests do; the function keeps no state
call_partial_model_recovery ==
    /\ component = "none"
    /\ \E n, e \in {Present(l) : l \in ElementLists} \cup {Missing} :
        /\ recovery_data' = [nodes |-> n, edges |-> e]
        /\ recovery_result' = partial_model_recovery([nodes |-> n, edges |-> e])
    /\ recovery_call' = RecoveryIdle
    /\ component' = "partial_model_recovery"
    /\ UNCHANGED <<loop_fields, first_fields, beside_recovery>>

NextRecovery ==
    \/ robust_json_extract_call
    \/ robust_json_extract_scan
    \/ robust_json_extract_return
    \/ call_partial_model_recovery

SpecRecovery == Init /\ [][NextRecovery]_vars

\* the recovery has returned for the data in recovery_data
RecoveryReturned ==
    \/ component = "robust_json_extract" /\ recovery_call.pc = "done"
    \/ component = "partial_model_recovery"

\* the value is a list of valid elements of the field
ValidList(field, value) ==
    \A i \in 1..Len(value) : Validates(field, value[i])

\* the merged object holds no element that validates for its field
NothingValidates ==
    \A field \in {"nodes", "edges"} :
        \A i \in 1..Len(recovery_data[field].items) :
            ~Validates(field, recovery_data[field].items[i])

\* C21: whatever the response text, _robust_json_extract returns an
\* instance of the schema and never raises; when nothing was decoded or
\* nothing validates, both list fields of the instance are empty.
C21_RecoveryNeverRaises ==
    (component = "robust_json_extract" /\ recovery_call.pc = "done") =>
        /\ ~recovery_result.raised
        /\ ValidList("nodes", recovery_result.nodes)
        /\ ValidList("edges", recovery_result.edges)
        /\ (~recovery_call.decoded \/ NothingValidates) =>
              /\ recovery_result.nodes = <<>>
              /\ recovery_result.edges = <<>>

\* a text of nothing but plain text and undecodable brackets was recovered
C21_Witness ==
    /\ component = "robust_json_extract"
    /\ recovery_call.pc = "done"
    /\ recovery_call.fragments > 0
    /\ ~recovery_call.decoded
    /\ recovery_result = MinimalInstance

\* kept is what is left of value when the positions in dropped are removed
KeptInOrder(kept, value, field) ==
    \E pos \in [1..Len(kept) -> 1..Len(value)] :
        /\ \A j, k \in 1..Len(kept) : j < k => pos[j] < pos[k]
        /\ \A k \in 1..Len(kept) : kept[k] = value[pos[k]]
        /\ \A i \in 1..Len(value) :
              Validates(field, value[i]) <=> \E k \in 1..Len(kept) : pos[k] = i

\* C22: field-level recovery keeps, per list field, exactly the elements
\* that validate, in their original order, whatever the other elements
\* of the same or of the other field are.
C22_KeepsValidElements ==
    RecoveryReturned =>
        \A field \in {"nodes", "edges"} :
            KeptInOrder(recovery_result[field], recovery_data[field].items,
                        field)

\* a valid node beside an invalid one and a valid edge beside an invalid
\* one went through field-level recovery
C22_Witness ==
    /\ component = "partial_model_recovery"
    /\ Len(recovery_data.nodes.items) > Len(recovery_result.nodes)
    /\ Len(recovery_result.nodes) > 0
    /\ Len(recovery_data.edges.items) > Len(recovery_result.edges)
    /\ Len(recovery_result.edges) > 0

----------------------------------------------------------------------------
(* Relevance filtering with query regeneration: the search of one query  *)
(* cycle of a section.  When the filter leaves no result the query is    *)
(* regenerated once, searched and filtered again, then filtered at half  *)
(* the threshold, then zero results are accepted.                        *)

\* query cycles of one section
MaxCycles == 4

\* Configuration.ENABLE_QUERY_REGENERATION
ENABLE_QUERY_REGENERATION == TRUE

\* what search and filter can leave
FilterOutcomes == {"relevant", "zero"}

FilterIdle(cycles) == [pc |-> "idle", query |-> None, cycles |-> cycles]

\* the guard of the regeneration without the set of regenerated queries
may_regenerate_again(query) == ENABLE_QUERY_REGENERATION

\* the guard of the regeneration: not for a query already regenerated
may_regenerate(query) ==
    ENABLE_QUERY_REGENERATION /\ query \notin regenerated_queries

\* the search of a cycle: the current query is searched and the results
\* are filtered by relevance
filtered_search ==
    /\ filter_call.pc = "idle"
    /\ filter_call.cycles < MaxCycles
    /\ \E q \in Queries, out \in FilterOutcomes :
        filter_call' = IF out = "relevant"
                       THEN FilterIdle(filter_call.cycles + 1)
                       ELSE [pc |-> "zero", query |-> q,
                             cycles |-> filter_call.cycles + 1]
    /\ component' = "filtered_search"
    /\ UNCHANGED <<regenerated_queries, regenerate_calls>>
    /\ UNCHANGED <<loop_fields, first_fields, beside_regeneration>>

\* (a) the query goes into regenerated_queries and to
\* ResearchPlanner.regenerate_query; the new query is searched and filtered
regenerate_and_search ==
    /\ filter_call.pc = "zero"
    /\ may_regenerate(filter_call.query)
    /\ regenerated_queries' = regenerated_queries \cup {filter_call.query}
    /\ regenerate_calls' =
          [regenerate_calls EXCEPT ![filter_call.query] = @ + 1]
    /\ \E new_query \in Queries, out \in FilterOutcomes :
        filter_call' = IF out = "relevant"
                       THEN FilterIdle(filter_call.cycles)
                       ELSE [filter_call EXCEPT !.pc = "still_zero",
                                                !.query = new_query]
    /\ UNCHANGED component
    /\ UNCHANGED <<loop_fields, first_fields, beside_regeneration>>

\* the query was regenerated before: straight on to the lower threshold
skip_regeneration ==
    /\ filter_call.pc = "zero"
    /\ ~may_regenerate(filter_call.query)
    /\ filter_call' = [filter_call EXCEPT !.pc = "still_zero"]
    /\ UNCHANGED <<regenerated_queries, regenerate_calls, component>>
    /\ UNCHANGED <<loop_fields, first_fields, beside_regeneration>>

\* (b) the filter at half the threshold, (c) zero results are accepted
retry_half_threshold ==
    /\ filter_call.pc = "still_zero"
    /\ filter_call' = FilterIdle(filter_call.cycles)
    /\ UNCHANGED <<regenerated_queries, regenerate_calls, component>>
    /\ UNCHANGED <<loop_fields, first_fields, beside_regeneration>>

NextRegeneration ==
    \/ filtered_search
    \/ regenerate_and_search
    \/ skip_regeneration
    \/ retry_half_threshold

SpecRegeneration == Init /\ [][NextRegeneration]_vars

\* C23: within a section regenerate_query is called at most once for a
\* query string, and only a query that is not yet in regenerated_queries
\* is handed to it.
C23_RegeneratedOnce ==
    /\ \A q \in Queries : regenerate_calls[q] <= 1
    /\ [][\A q \in Queries :
            regenerate_calls'[q] > regenerate_calls[q] =>
                q \notin regenerated_queries]_vars

\* a query that was regenerated before left the filter with zero results
\* again, and the search went on without regenerating it
C23_Witness ==
    /\ filter_call.pc = "still_zero"
    /\ filter_call.query \in regenerated_queries
    /\ regenerate_calls[filter_call.query] = 1
    /\ \A q \in Queries : q \in regenerated_queries

----------------------------------------------------------------------------
(* split_text_into_chunks: the one of core/utils.py, which                *)
(* ExecutionManager.summarize_sources calls, and the one of               *)
(* core/research_loop.py, which the earlier loop and the tests of         *)
(* test_core_components.py call.  A text is a sequence of characters.     *)

\* characters one text may hold
MaxTextLen == 4
\* largest chunk_size handed to the function; overlaps go one beyond it
MaxChunkSize == 3

Characters == {"a", "b"}
Texts == SeqsUpTo(Characters, MaxTextLen)
ChunkSizes == 0..MaxChunkSize
ChunkOverlaps == -1..MaxChunkSize + 1

\* Python's text[a:b] for 0 <= a
Slice(text, a, b) ==
    SubSeq(text, a + 1, IF b < Len(text) THEN b ELSE Len(text))

\* a step that forgets the overlap
step_without_overlap(chunk_size, chunk_overlap) == chunk_size

\* the distance between the starts of two consecutive chunks
step(chunk_size, chunk_overlap) == chunk_size - chunk_overlap

Returned(chunks) == [raised |-> FALSE, chunks |-> chunks]
ValueError == [raised |-> TRUE, chunks |-> <<>>]

\* the while loop of core/utils.py
RECURSIVE utils_chunks(_, _, _, _, _)
utils_chunks(text, chunk_size, chunk_overlap, start, chunks) ==
    IF start < Len(text)
    THEN LET end == start + chunk_size
             more == Append(chunks, Slice(text, start, end))
         IN  IF end >= Len(text) THEN more
             ELSE utils_chunks(text, chunk_size, chunk_overlap,
                               start + step(chunk_size, chunk_overlap), more)
    ELSE chunks

\* split_text_into_chunks of core/utils.py: no text gives no chunk, a
\* chunk_size of zero or less gives the text back, an overlap of chunk_size
\* or more is replaced by half the chunk_size
split_text_into_chunks(text, chunk_size, chunk_overlap) ==
    IF text = <<>> THEN Returned(<<>>)
    ELSE IF chunk_size <= 0 THEN Returned(<<text>>)
    ELSE LET overlap == IF chunk_overlap >= chunk_size
                        THEN chunk_size \div 2 ELSE chunk_overlap
         IN  Returned(utils_chunks(text, chunk_size, overlap, 0, <<>>))

\* the while loop of core/research_loop.py, with its break on a step of
\* zero or less
RECURSIVE loop_chunks(_, _, _, _, _)
loop_chunks(text, chunk_size, chunk_overlap, idx, chunks) ==
    IF idx < Len(text)
    THEN LET end_idx == idx + chunk_size
             more == Append(chunks, Slice(text, idx, end_idx))
         IN  IF end_idx >= Len(text) THEN more
             ELSE IF step(chunk_size, chunk_overlap) <= 0 THEN more
             ELSE loop_chunks(text, chunk_size, chunk_overlap,
                              idx + step(chunk_size, chunk_overlap), more)
    ELSE chunks

\* split_text_into_chunks of core/research_loop.py: the arguments are
\* validated, a text of at most chunk_size characters is one chunk
loop_split_text_into_chunks(text, chunk_size, chunk_overlap) ==
    IF text = <<>> THEN Returned(<<>>)
    ELSE IF chunk_size <= 0 THEN ValueError
    ELSE IF chunk_overlap < 0 THEN ValueError
    ELSE IF chunk_overlap >= chunk_size THEN ValueError
    ELSE IF Len(text) <= chunk_size THEN Returned(<<text>>)
    ELSE Returned(loop_chunks(text, chunk_size, chunk_overlap, 0, <<>>))

\* a call of the function of core/utils.py; the function keeps no state, so
\* one call is followed
call_split_text_into_chunks ==
    /\ component = "none"
    /\ \E text \in Texts, chunk_size \in ChunkSizes,
          chunk_overlap \in ChunkOverlaps :
        /\ split_call' = [text |-> text, chunk_size |-> chunk_size,
                          chunk_overlap |-> chunk_overlap]
        /\ split_result' =
              split_text_into_chunks(text, chunk_size, chunk_overlap)
    /\ component' = "utils.split_text_into_chunks"
    /\ UNCHANGED <<loop_fields, first_fields, beside_splitter>>

\* a call of the function of core/research_loop.py
call_loop_split_text_into_chunks ==
    /\ component = "none"
    /\ \E text \in Texts, chunk_size \in ChunkSizes,
          chunk_overlap \in ChunkOverlaps :
        /\ split_call' = [text |-> text, chunk_size |-> chunk_size,
                          chunk_overlap |-> chunk_overlap]
        /\ split_result' =
              loop_split_text_into_chunks(text, chunk_size, chunk_overlap)
    /\ component' = "research_loop.split_text_into_chunks"
    /\ UNCHANGED <<loop_fields, first_fields, beside_splitter>>

NextSplit ==
    \/ call_split_text_into_chunks
    \/ call_loop_split_text_into_chunks

SpecSplit == Init /\ [][NextSplit]_vars

SplitCalled ==
    component \in {"utils.split_text_into_chunks",
                   "research_loop.split_text_into_chunks"}

\* the chunks are number 0 to last
LastChunk == Len(split_result.chunks) - 1

\* where chunk number i starts, and where it would end in an endless text
ChunkStart(i) == i * (split_call.chunk_size - split_call.chunk_overlap)
ChunkEnd(i) == ChunkStart(i) + split_call.chunk_size

\* C24: for a non-empty text and 0 <= overlap < chunk_size chunk i is
\* text[i*(chunk_size-overlap) : i*(chunk_size-overlap)+chunk_size], the
\* last chunk is the first one that reaches the end of the text; a text
\* of at most chunk_size characters is one chunk, the text itself; an
\* empty text gives no chunks.
C24_ChunksCoverText ==
    SplitCalled =>
        /\ split_call.text = <<>> => split_result = Returned(<<>>)
        /\ ( /\ split_call.text # <<>>
             /\ 0 <= split_call.chunk_overlap
             /\ split_call.chunk_overlap < split_call.chunk_size ) =>
              /\ ~split_result.raised
              /\ split_result.chunks # <<>>
              /\ \A i \in 0..LastChunk :
                    split_result.chunks[i + 1] =
                        Slice(split_call.text, ChunkStart(i), ChunkEnd(i))
              /\ \A i \in 0..LastChunk :
                    (ChunkEnd(i) >= Len(split_call.text)) <=> (i = LastChunk)
              /\ Len(split_call.text) <= split_call.chunk_size =>
                    split_result.chunks = <<split_call.text>>

\* a text longer than chunk_size was split into three overlapping chunks
C24_Witness ==
    /\ SplitCalled
    /\ split_call.chunk_overlap > 0
    /\ split_call.chunk_overlap < split_call.chunk_size
    /\ Len(split_call.text) > split_call.chunk_size
    /\ Len(split_result.chunks) = 3

\* C25: a call on a non-empty text with overlap >= chunk_size raises and
\* returns no chunks.
C25_InvalidOverlapRaises ==
    ( /\ SplitCalled
      /\ split_call.text # <<>>
      /\ split_call.chunk_overlap >= split_call.chunk_size ) =>
        /\ split_result.raised
        /\ split_result.chunks = <<>>

----------------------------------------------------------------------------
(* The sources of a session: summarize_sources records the selected       *)
(* links in sources_gathered, the completion of a section copies them     *)
(* into its plan entry, and finalize_report numbers the links of all      *)
(* sections.                                                              *)

\* what a user or the automatic mode can hand to summarize_sources: the
\* results of a search, the same link twice included
SelectedResults == SeqsUpTo(URLs, MaxResults) \ {<<>>}

\* the source list of the report: "[i+1] title (link)" per source
NumberedSources(all_sources) ==
    [i \in 1..Len(all_sources) |-> [number |-> i, link |-> all_sources[i]]]

NoReportYet == component # "finalize_report"

\* a plan of pending sections, the first one active
sources_plan ==
    /\ research_plan = <<>>
    /\ NoReportYet
    /\ \E titles \in SeqsUpTo(Titles, MaxSections) \ {<<>>} :
        research_plan' = NewSections(titles)
    /\ current_section_index' = 0
    /\ component' = "generate_plan"
    /\ UNCHANGED <<plan_approved, gathered, interactive_mode, state_fields,
                   is_interrupted, pc, ret, entry, runs, counters>>
    /\ UNCHANGED <<first_fields, utility_fields>>

\* the end of ExecutionManager.summarize_sources
em_record_sources ==
    /\ NoReportYet
    /\ current_section_index \in 0..Len(research_plan) - 1
    /\ \E selected \in SelectedResults :
        sources_gathered' = AddSources(sources_gathered, selected)
    /\ component' = "summarize_sources"
    /\ UNCHANGED <<proposed_query, current_query, search_results,
                   pending_source_selection, completed_loops, new_information,
                   accumulated_summary, final_report>>
    /\ UNCHANGED <<plan_fields, interactive_mode, is_interrupted, pc, ret,
                   entry, runs, counters>>
    /\ UNCHANGED <<first_fields, utility_fields>>

\* the end of ResearchLoop._summarize_sources, which has no sections
legacy_record_sources ==
    /\ NoReportYet
    /\ research_plan = <<>>
    /\ \E selected \in SelectedResults :
        sources_gathered' = AddSources(sources_gathered, selected)
    /\ component' = "_summarize_sources"
    /\ UNCHANGED <<proposed_query, current_query, search_results,
                   pending_source_selection, completed_loops, new_information,
                   accumulated_summary, final_report>>
    /\ UNCHANGED <<plan_fields, interactive_mode, is_interrupted, pc, ret,
                   entry, runs, counters>>
    /\ UNCHANGED <<first_fields, utility_fields>>

\* the active section is completed: its sources are the gathered ones, the
\* next section starts with none
sources_conclude ==
    /\ NoReportYet
    /\ current_section_index \in 0..Len(research_plan) - 1
    /\ research_plan' = [research_plan EXCEPT
                            ![ActiveSection].status = "completed",
                            ![ActiveSection].sources = sources_gathered]
    /\ sources_gathered' = <<>>
    /\ current_section_index' = current_section_index + 1
    /\ component' = "conclude_section"
    /\ UNCHANGED <<proposed_query, current_query, search_results,
                   pending_source_selection, completed_loops, new_information,
                   accumulated_summary, final_report>>
    /\ UNCHANGED <<plan_approved, gathered, interactive_mode, is_interrupted,
                   pc, ret, entry, runs, counters>>
    /\ UNCHANGED <<first_fields, utility_fields>>

\* ReportGenerator.finalize_report on the plan as it is
sources_finalize ==
    /\ NoReportYet
    /\ research_plan # <<>>
    /\ final_report' = finalize_report(research_plan)
    /\ source_list' = NumberedSources(AllSources(research_plan))
    /\ component' = "finalize_report"
    /\ UNCHANGED <<proposed_query, current_query, search_results,
                   pending_source_selection, completed_loops, new_information,
                   accumulated_summary, sources_gathered>>
    /\ UNCHANGED <<plan_fields, interactive_mode, is_interrupted, pc, ret,
                   entry, runs, counters>>
    /\ UNCHANGED <<first_fields, beside_listing>>

NextSources ==
    \/ sources_plan
    \/ em_record_sources
    \/ legacy_record_sources
    \/ sources_conclude
    \/ sources_finalize

SpecSources == Init /\ [][NextSources]_vars

\* no link twice in the list
NoLinkTwice(sources) ==
    \A i, j \in 1..Len(sources) : sources[i] = sources[j] => i = j

\* the sources of the sections one after the other, as the report reads them
RECURSIVE SectionSources(_)
SectionSources(plan) ==
    IF plan = <<>> THEN <<>>
    ELSE Head(plan).sources \o SectionSources(Tail(plan))

\* where a link appears first in a list that holds it
FirstAppearance(sources, link) ==
    CHOOSE i \in 1..Len(sources) :
        /\ sources[i] = link
        /\ \A j \in 1..i - 1 : sources[j] # link

\* C26: sources_gathered and every section's sources hold each link at
\* most once; the source list of the final report holds every link of the
\* sections exactly once, numbered 1, 2, ... in the order in which the
\* links first appear in the sections.
C26_SourcesDeduplicated ==
    /\ NoLinkTwice(sources_gathered)
    /\ \A k \in 1..Len(research_plan) : NoLinkTwice(research_plan[k].sources)
    /\ component = "finalize_report" =>
        LET read == SectionSources(research_plan) IN
        /\ \A i \in 1..Len(source_list) : source_list[i].number = i
        /\ {source_list[i].link : i \in 1..Len(source_list)} = Range(read)
        /\ \A i, j \in 1..Len(source_list) :
              source_list[i].link = source_list[j].link => i = j
        /\ \A i, j \in 1..Len(source_list) :
              i < j => FirstAppearance(read, source_list[i].link)
                         < FirstAppearance(read, source_list[j].link)

\* two sections share a link and the report lists two links
C26_Witness ==
    /\ component = "finalize_report"
    /\ Len(source_list) = 2
    /\ \E k, m \in 1..Len(research_plan) :
          /\ k < m
          /\ Range(research_plan[k].sources)
                \cap Range(research_plan[m].sources) # {}
          /\ research_plan[k].sources # research_plan[m].sources

----------------------------------------------------------------------------
(* ResearchState.to_dict and ResearchState.from_dict (core/state.py).  A  *)
(* state is a record of its attributes, a dictionary a function on its   *)
(* keys.                                                                 *)

\* the attributes ResearchState.__init__ creates
StateAttributes ==
    {"research_topic", "language", "initial_query", "proposed_query",
     "current_query", "search_results", "new_information",
     "sources_gathered", "accumulated_summary", "completed_loops",
     "final_report", "pending_source_selection", "fetched_content",
     "knowledge_graph_nodes", "knowledge_graph_edges", "follow_up_log",
     "research_plan", "current_section_index", "plan_approved",
     "is_interrupted"}

\* the keys to_dict writes
SerializedKeys ==
    {"research_topic", "language", "initial_query", "proposed_query",
     "current_query", "search_results", "new_information",
     "sources_gathered", "accumulated_summary", "completed_loops",
     "final_report", "pending_source_selection", "fetched_content",
     "knowledge_graph_nodes", "knowledge_graph_edges", "follow_up_log",
     "research_plan", "current_section_index", "plan_approved",
     "is_interrupted"}

Languages == {"Japanese", "English"}

\* ResearchState.__init__(research_topic, language)
NewState(topic, language) ==
    [research_topic |-> topic, language |-> language,
     initial_query |-> None, proposed_query |-> None, current_query |-> None,
     search_results |-> <<>>, new_information |-> None,
     sources_gathered |-> <<>>, accumulated_summary |-> <<>>,
     completed_loops |-> 0, final_report |-> NoReport,
     pending_source_selection |-> FALSE,
     fetched_content |-> [link \in URLs |-> "absent"],
     knowledge_graph_nodes |-> <<>>, knowledge_graph_edges |-> <<>>,
     follow_up_log |-> <<>>, research_plan |-> <<>>,
     current_section_index |-> -1, plan_approved |-> FALSE,
     is_interrupted |-> FALSE]

\* a plan with its first section completed and its second one pending
SavedPlan ==
    <<[NewSection("s") EXCEPT !.status = "completed", !.summary = <<"q1">>,
                              !.sources = <<"u1">>],
      NewSection("s")>>

\* the states a session is saved in: a query proposed, current or neither;
\* the working fields of a query cycle filled or not; a plan or none; a
\* report or none; and the set of regenerated queries, which the session
\* state of the specification and test_relevance_filtering.py hold
SavedStates ==
    {[NewState(research_topic, language) EXCEPT
        !.proposed_query = IF query = "proposed" THEN "q1" ELSE None,
        !.current_query = IF query = "current" THEN "q1" ELSE None,
        !.search_results = IF filled THEN <<"u1">> ELSE <<>>,
        !.pending_source_selection = filled,
        !.new_information = IF filled THEN SummaryText ELSE None,
        !.sources_gathered = IF filled THEN <<"u1">> ELSE <<>>,
        !.accumulated_summary = IF filled THEN <<"q1">> ELSE <<>>,
        !.fetched_content =
            IF filled THEN [link \in URLs |-> "content"] ELSE @,
        !.knowledge_graph_nodes =
            IF filled THEN <<[id |-> "n1", label |-> "n1", type |-> "t"]>>
            ELSE <<>>,
        !.knowledge_graph_edges =
            IF filled
            THEN <<[source |-> "n1", target |-> "n1", label |-> "rel"]>>
            ELSE <<>>,
        !.completed_loops = loops,
        !.research_plan = IF planned THEN SavedPlan ELSE <<>>,
        !.current_section_index = IF planned THEN 1 ELSE -1,
        !.plan_approved = approved,
        !.is_interrupted = interrupted,
        !.final_report =
            IF reported THEN [body |-> "llm_report", sources |-> <<"u1">>]
            ELSE NoReport]
     @@ [k \in {"regenerated_queries"} |-> regenerated] :
        language \in Languages, query \in {"none", "proposed", "current"},
        filled \in BOOLEAN, loops \in 0..MAX_RESEARCH_LOOPS,
        planned \in BOOLEAN, approved \in BOOLEAN, interrupted \in BOOLEAN,
        reported \in BOOLEAN, regenerated \in SUBSET Queries}

\* ResearchState.to_dict
to_dict(state) == [k \in SerializedKeys |-> state[k]]

\* data.get(key, default)
Get(data, key, default) ==
    IF key \in DOMAIN data THEN data[key] ELSE default

\* ResearchState.from_dict: a new state of the topic and the language,
\* then one attribute after the other from the dictionary; without its key
\* an attribute is what __init__ made it, or None where from_dict names no
\* default
from_dict(data) ==
    LET state == NewState(data["research_topic"],
                          Get(data, "language", "Japanese"))
    IN  [k \in StateAttributes |->
            IF k \in {"research_topic", "language"} THEN state[k]
            ELSE IF k \in {"initial_query", "proposed_query",
                           "current_query", "new_information"}
            THEN Get(data, k, None)
            ELSE Get(data, k, state[k])]

\* a session is in one of the states it can be saved in
new_session ==
    /\ component = "none"
    /\ saved_state' \in SavedStates
    /\ component' = "ResearchState"
    /\ UNCHANGED <<snapshot, restored>>
    /\ UNCHANGED <<loop_fields, first_fields, beside_serialization>>

\* state.to_dict()
call_to_dict ==
    /\ component = "ResearchState"
    /\ snapshot' = to_dict(saved_state)
    /\ component' = "to_dict"
    /\ UNCHANGED <<saved_state, restored>>
    /\ UNCHANGED <<loop_fields, first_fields, beside_serialization>>

\* ResearchState.from_dict(data)
call_from_dict ==
    /\ component = "to_dict"
    /\ restored' = from_dict(snapshot)
    /\ component' = "from_dict"
    /\ UNCHANGED <<saved_state, snapshot>>
    /\ UNCHANGED <<loop_fields, first_fields, beside_serialization>>

NextSerialization ==
    \/ new_session
    \/ call_to_dict
    \/ call_from_dict

SpecSerialization == Init /\ [][NextSerialization]_vars

\* the fields of the session state that a snapshot has to carry
SessionStateFields ==
    {"research_topic", "language", "proposed_query", "current_query",
     "search_results", "pending_source_selection", "fetched_content",
     "accumulated_summary", "sources_gathered", "completed_loops",
     "research_plan", "current_section_index", "knowledge_graph_nodes",
     "knowledge_graph_edges", "regenerated_queries", "plan_approved",
     "is_interrupted", "final_report"}

\* C27: from_dict(to_dict(s)) has every field of the session state, with
\* the value it has in s.
C27_RoundTrip ==
    component = "from_dict" =>
        \A k \in SessionStateFields :
            /\ k \in DOMAIN restored
            /\ restored[k] = saved_state[k]

----------------------------------------------------------------------------
(* The order of the phases of a query cycle (run_loop, _web_search)       *)

\* a step in which a search of the current query returns: run_loop's
\* _web_search call, or the interactive search of the approved query
SearchReturns ==
    \/ searches' = searches + 1
    \/ /\ search_results' # search_results
       /\ proposed_query' = proposed_query
       /\ cycle'.phase = "searched"

\* a step in which _summarize_sources runs
SummarizationRuns == summaries' = summaries + 1

\* a step in which the reflection call runs
ReflectionRuns == reflections' = reflections + 1

\* the search of the current query has returned and nothing came after it
SearchedCurrentQuery ==
    cycle.query = current_query /\ cycle.phase = "searched"

\* the cycle of the current query is through its summarization: its results
\* were summarized, or its search found nothing to summarize
SummarizedCurrentQuery ==
    /\ cycle.query = current_query
    /\ \/ cycle.phase = "summarized"
       \/ cycle.phase = "searched" /\ search_results = <<>>

\* no cycle is under way when the current query is searched: nothing was
\* searched yet or the reflection on the last searched query has returned;
\* or the search repeats the one of the current query, nothing having been
\* done with it
FreeToSearch ==
    \/ cycle.phase \in {"none", "reflected"}
    \/ SearchedCurrentQuery

----------------------------------------------------------------------------
(* The interruption of the sectioned loop *)

\* every section of the plan is still there with the status it had
StatusesKept ==
    \A i \in 1..Len(research_plan) :
        /\ i <= Len(research_plan')
        /\ research_plan'[i].status = research_plan[i].status

\* no phase of a query cycle begins: no query generation, search,
\* summarization or reflection
NoPhaseBegins == pc' \notin {"s_gen", "s_search", "s_summarize", "s_post"}

\* a summarization that finds is_interrupted set adds nothing: the chunk tasks
\* return None and summarize_sources returns before the consolidation
InterruptedSummarizationAddsNothing ==
    pc = "s_summarize" /\ is_interrupted =>
        UNCHANGED <<new_information, accumulated_summary, sources_gathered,
                    pending_source_selection, research_plan,
                    current_section_index>>

\* C29: once the loop has observed is_interrupted as true at a checkpoint it
\* advances no further: no new search or summarization is started, no section
\* changes status, so that pending sections stay pending, and
\* current_section_index does not change.
C29_NoAdvanceAfterInterruption ==
    [][ /\ (interrupt_observed \/ (pc = "s_loop" /\ is_interrupted) =>
              /\ NoPhaseBegins
              /\ StatusesKept
              /\ UNCHANGED <<current_section_index, search_results,
                             accumulated_summary, sources_gathered>>)
        /\ InterruptedSummarizationAddsNothing ]_vars

\* an interrupted session with its report: a completed section, a section
\* still pending, and the index where the interruption found it
C29_Witness ==
    /\ interrupt_observed
    /\ final_report # NoReport
    /\ current_section_index < Len(research_plan)
    /\ \E i, j \in 1..Len(research_plan) :
         /\ research_plan[i].status = "completed"
         /\ research_plan[j].status = "pending"

----------------------------------------------------------------------------
(* The completion of a section *)

\* the per-query and per-section scratch fields as ResearchState.__init__
\* leaves them
ScratchReset ==
    /\ current_query = None
    /\ proposed_query = None
    /\ search_results = <<>>
    /\ accumulated_summary = <<>>
    /\ sources_gathered = <<>>
    /\ completed_loops = 0

\* the active section has not been begun
SectionNotBegun ==
    /\ current_section_index \in 0..(Len(research_plan) - 1)
    /\ research_plan[ActiveSection].status = "pending"

\* a step that completes the active section
SectionCompletes ==
    /\ current_section_index >= 0
    /\ current_section_index' = current_section_index + 1

\* a section holds a summary and sources only once it is completed, and then
\* no more summaries than the query cycles of one section can add
OwnSnapshotsOnly ==
    \A i \in 1..Len(research_plan) :
        /\ research_plan[i].status # "completed" =>
              research_plan[i].summary = <<>> /\ research_plan[i].sources = <<>>
        /\ Len(research_plan[i].summary) <= MAX_RESEARCH_LOOPS

\* C30: when a section completes, its summary and sources are copied into its
\* plan entry and the scratch fields are reset; the snapshots of the sections
\* completed before stay as they are; every section starts with
\* completed_loops = 0, an empty summary and no sources, so that a snapshot
\* holds nothing of another section.
C30_SectionSnapshot ==
    /\ [](SectionNotBegun => ScratchReset)
    /\ []OwnSnapshotsOnly
    /\ [][SectionCompletes =>
            /\ research_plan'[ActiveSection].status = "completed"
            /\ research_plan'[ActiveSection].summary = accumulated_summary
            /\ research_plan'[ActiveSection].sources = sources_gathered
            /\ \A i \in 1..current_section_index :
                 research_plan'[i] = research_plan[i]
            /\ ScratchReset']_vars

\* a second section is under way with a summary of its own, while the first
\* is completed with its summary and source
C30_Witness ==
    /\ current_section_index = 1
    /\ Len(research_plan) >= 2
    /\ research_plan[1].status = "completed"
    /\ research_plan[1].summary # <<>>
    /\ research_plan[1].sources # <<>>
    /\ research_plan[2].status = "researching"
    /\ accumulated_summary # <<>>
    /\ completed_loops = 1

----------------------------------------------------------------------------
(* Reflection without a next query *)

\* the reflection of this call of run_loop answered without a next query
ConcludedInThisCall ==
    /\ Running
    /\ reflections > entry.reflections
    /\ cycle.phase = "reflected"
    /\ cycle.no_next_query

\* C31: whenever the reflection yields no next query (no QUERY: line, or the
\* literal None), whatever the evaluation, the research of the section
\* concludes: no query is proposed or made current by the reflection, none is
\* there while run_loop goes on to its report, and no further search is
\* issued; reflect_and_decide returns no next query for such a response.
C31_NoNextQueryConcludes ==
    /\ [][ReflectionRuns /\ cycle'.no_next_query =>
            current_query' = None /\ proposed_query' = None]_vars
    /\ [](ConcludedInThisCall =>
            /\ current_query = None
            /\ proposed_query = None
            /\ pc \in {"while", "finalize"})
    /\ [][ConcludedInThisCall => searches' = searches]_vars
    /\ [](\A resp \in SectionReflections :
            NoNextQuery(resp) => ReflectNextQuery(resp) = None)

\* a run that returned its report with loops to spare, because its first
\* reflection answered without a query
C31_Witness ==
    /\ cycle.phase = "reflected"
    /\ cycle.no_next_query
    /\ pc = "returned"
    /\ ret # NoReport
    /\ reflections = 1
    /\ searches = 1
    /\ completed_loops < MAX_RESEARCH_LOOPS

----------------------------------------------------------------------------
(* A reflection whose LLM call raises *)

\* C32: if the LLM call of reflect_and_decide raises, the Reflector falls
\* back to CONCLUDE: the call returns, with the evaluation CONCLUDE and no
\* next query, and the exception does not reach its caller.
C32_ReflectorFallsBack ==
    component = "reflect_and_decide" /\ reflect_response = ReflectionRaised =>
        /\ ~reflect_result.raised
        /\ reflect_result.evaluation = "CONCLUDE"
        /\ reflect_result.next_query = None

----------------------------------------------------------------------------
(* The knowledge graph over the extractions of a session, as the two      *)
(* extractions that write the state's lists keep it:                      *)
(* ExecutionManager.extract_entities_and_relations and                    *)
(* ResearchLoop._extract_entities_and_relations.                          *)

\* the summaries of a query an extraction may find in new_information
LongSummary == "a summary of twenty characters or more"
ShortSummary == "a short summary"
SummaryGenerationError == "Error occurred during summary generation."
NoContentRetrieved ==
    "Could not retrieve or find content for any of the selected sources."
Informations == {None, "", ShortSummary, LongSummary, NoSourcesSelected,
                 NoSourcesSelectedEM, CouldNotSummarize,
                 SummaryGenerationError, NoContentRetrieved}

\* len(state.new_information)
InformationLength(info) ==
    CASE info = "" -> 0
      [] info = ShortSummary -> 15
      [] info = LongSummary -> 38
      [] info = NoSourcesSelected -> 43
      [] info = NoSourcesSelectedEM -> 20
      [] info = CouldNotSummarize -> 32
      [] info = SummaryGenerationError -> 41
      [] info = NoContentRetrieved -> 67
      [] OTHER -> 0

node_ids(nodes) == {nodes[i].id : i \in 1..Len(nodes)}
edge_keys(edges) == {EdgeKey(edges[i]) : i \in 1..Len(edges)}

\* the node loop of ExecutionManager.extract_entities_and_relations
RECURSIVE em_merge_nodes(_, _)
em_merge_nodes(nodes, answered) ==
    IF answered = <<>> THEN nodes
    ELSE em_merge_nodes(
            IF Head(answered).id \in node_ids(nodes) THEN nodes
            ELSE Append(nodes, [id |-> Head(answered).id,
                                mention_count |-> NoKey]),
            Tail(answered))

\* its edge loop
RECURSIVE em_merge_edges(_, _)
em_merge_edges(edges, answered) ==
    IF answered = <<>> THEN edges
    ELSE em_merge_edges(
            IF EdgeKey(Head(answered)) \in edge_keys(edges) THEN edges
            ELSE Append(edges, Head(answered)),
            Tail(answered))

\* the guard of ExecutionManager.extract_entities_and_relations
em_skips_extraction(info) == ~Truthy(info) \/ InformationLength(info) < 20

\* the guard of ResearchLoop._extract_entities_and_relations
legacy_skips_extraction(info) ==
    \/ ~Truthy(info)
    \/ info \in {SummaryGenerationError, NoSourcesSelected,
                 NoContentRetrieved}

AnsweredNodeLists == SeqsUpTo(AnsweredNodes(FALSE), MaxBatch)
AnsweredEdgeLists == SeqsUpTo(AnsweredEdges, MaxBatch)

\* ExecutionManager.extract_entities_and_relations after a summarization
\* that left info in new_information
em_extract_entities_and_relations ==
    /\ component \in {"none", "extract_entities_and_relations"}
    /\ kg_call = KGIdle
    /\ extractions < MaxExtractions
    /\ extractions' = extractions + 1
    /\ component' = "extract_entities_and_relations"
    /\ \E info \in Informations :
        /\ new_information' = info
        /\ IF em_skips_extraction(info)
           THEN /\ kg_outcome' = "skipped"
                /\ UNCHANGED <<knowledge_graph_nodes, knowledge_graph_edges>>
           ELSE \/ /\ kg_outcome' = "call_raised"
                   /\ UNCHANGED <<knowledge_graph_nodes,
                                  knowledge_graph_edges>>
                \/ \E nodes \in AnsweredNodeLists, edges \in AnsweredEdgeLists :
                    /\ knowledge_graph_nodes' =
                          em_merge_nodes(knowledge_graph_nodes, nodes)
                    /\ knowledge_graph_edges' =
                          em_merge_edges(knowledge_graph_edges, edges)
                    /\ kg_outcome' = "merged"
    /\ UNCHANGED <<proposed_query, current_query, search_results,
                   pending_source_selection, completed_loops,
                   accumulated_summary, sources_gathered, final_report>>
    /\ UNCHANGED <<plan_fields, interactive_mode, is_interrupted, pc, ret,
                   entry, runs, counters>>
    /\ UNCHANGED <<kg_call, kg_before, kg_presented, planner_fields,
                   reflector_fields, cache_fields, chunk_fields,
                   client_fields, utility_fields>>

\* ResearchLoop._extract_entities_and_relations after a summarization that
\* left info in new_information: the lists are emptied when there is nothing
\* to extract from or the extraction raises, and are replaced by the lists
\* of the answer otherwise, empty lists for an answer without JSON
legacy_extract_entities_and_relations ==
    /\ component \in {"none", "_extract_entities_and_relations"}
    /\ kg_call = KGIdle
    /\ extractions < MaxExtractions
    /\ extractions' = extractions + 1
    /\ component' = "_extract_entities_and_relations"
    /\ \E info \in Informations :
        /\ new_information' = info
        /\ IF legacy_skips_extraction(info)
           THEN /\ kg_outcome' = "skipped"
                /\ knowledge_graph_nodes' = <<>>
                /\ knowledge_graph_edges' = <<>>
           ELSE \/ /\ kg_outcome' = "call_raised"
                   /\ knowledge_graph_nodes' = <<>>
                   /\ knowledge_graph_edges' = <<>>
                \/ /\ kg_outcome' = "no_json"
                   /\ knowledge_graph_nodes' = <<>>
                   /\ knowledge_graph_edges' = <<>>
                \/ \E nodes \in AnsweredNodeLists, edges \in AnsweredEdgeLists :
                    /\ knowledge_graph_nodes' = nodes
                    /\ knowledge_graph_edges' = edges
                    /\ kg_outcome' = "replaced"
    /\ UNCHANGED <<proposed_query, current_query, search_results,
                   pending_source_selection, completed_loops,
                   accumulated_summary, sources_gathered, final_report>>
    /\ UNCHANGED <<plan_fields, interactive_mode, is_interrupted, pc, ret,
                   entry, runs, counters>>
    /\ UNCHANGED <<kg_call, kg_before, kg_presented, planner_fields,
                   reflector_fields, cache_fields, chunk_fields,
                   client_fields, utility_fields>>

NextGraphGrowth ==
    \/ em_extract_entities_and_relations
    \/ legacy_extract_entities_and_relations

SpecGraphGrowth == Init /\ [][NextGraphGrowth]_vars

\* C33: across the extractions of a session the node ids and the edge keys
\* of the knowledge graph only grow: none is removed or replaced, whether
\* the summary of a later query is empty or an error message, or a later
\* extraction returns nothing or fails.
C33_GraphOnlyGrows ==
    [][/\ node_ids(knowledge_graph_nodes) \subseteq
            node_ids(knowledge_graph_nodes')
       /\ edge_keys(knowledge_graph_edges) \subseteq
            edge_keys(knowledge_graph_edges')]_vars

----------------------------------------------------------------------------
(* A summarization attempt from the chunk phase to its return, as        *)
(* ExecutionManager.summarize_sources (core/execution.py) and            *)
(* ResearchLoop._summarize_sources (core/research_loop.py) carry it out. *)
(* The former gathers the chunk tasks modelled above; the latter         *)
(* summarizes the chunks one after the other and ends with the           *)
(* extraction of entities and relations.                                 *)

\* summarization attempts of one session
MaxSummarizations == 1

\* what the consolidation call gives
ConsolidationOutcomes == {"summary", "empty", "raise"}

\* the answers of the LLM to the extraction that ends a summarization
NoExtractionAnswer(kind) == [kind |-> kind, nodes |-> <<>>, edges |-> <<>>]
ExtractionAnswers ==
    {NoExtractionAnswer("raise"), NoExtractionAnswer("no_json")}
      \cup {[kind |-> "parsed", nodes |-> n, edges |-> e] :
              n \in SeqsUpTo(AnsweredNodes(FALSE), 1),
              e \in SeqsUpTo(AnsweredEdges, 1)}

\* the lists ResearchLoop._extract_entities_and_relations leaves
legacy_extraction(info, answer) ==
    IF legacy_skips_extraction(info) \/ answer.kind # "parsed"
    THEN [nodes |-> <<>>, edges |-> <<>>]
    ELSE [nodes |-> answer.nodes, edges |-> answer.edges]

\* the search of a query finds results: they await their summarization
search_found ==
    /\ summarize_pc \in {"idle", "returned"}
    /\ ~pending_source_selection
    /\ summaries < MaxSummarizations
    /\ \E q \in Queries, results \in SelectedResults :
        /\ current_query' = q
        /\ search_results' = results
    /\ pending_source_selection' = TRUE
    /\ summarize_pc' = "idle"
    /\ chunk_count' = 0
    /\ chunk_pc' = [i \in 1..MaxChunks |-> "unused"]
    /\ chunk_result' = [i \in 1..MaxChunks |-> "pending"]
    /\ semaphore' = MAX_CONCURRENT_CHUNKS
    /\ finished' = <<>>
    /\ all_chunk_summaries' = <<>>
    /\ UNCHANGED <<proposed_query, completed_loops, new_information,
                   accumulated_summary, sources_gathered, final_report>>
    /\ UNCHANGED <<plan_fields, interactive_mode, is_interrupted, pc, ret,
                   entry, runs, counters>>
    /\ UNCHANGED <<component, planner_fields, reflector_fields, graph_fields,
                   cache_fields, client_fields, utility_fields>>

\* ExecutionManager.summarize_sources without selected results
em_summarize_nothing_selected ==
    /\ summarize_pc = "idle"
    /\ component \in {"none", "summarize_sources"}
    /\ summaries < MaxSummarizations
    /\ new_information' = NoSourcesSelectedEM
    /\ pending_source_selection' = FALSE
    /\ summarize_pc' = "returned"
    /\ component' = "summarize_sources"
    /\ summaries' = summaries + 1
    /\ UNCHANGED <<proposed_query, current_query, search_results,
                   completed_loops, accumulated_summary, sources_gathered,
                   final_report>>
    /\ UNCHANGED <<plan_fields, interactive_mode, is_interrupted, pc, ret,
                   entry, runs, searches, gens, reflections, cycle,
                   interrupt_observed>>
    /\ UNCHANGED <<chunk_count, chunk_pc, chunk_result, semaphore, finished,
                   all_chunk_summaries>>
    /\ UNCHANGED <<planner_fields, reflector_fields, graph_fields,
                   cache_fields, client_fields, utility_fields>>

\* ExecutionManager.summarize_sources after the gather: it returns at once
\* when the session is interrupted; without a chunk summary it sets the
\* failure message; else it awaits the consolidation call, which is not
\* inside a try
summarize_finish ==
    /\ summarize_pc \in {"interrupted", "nothing", "consolidated"}
    /\ component = "summarize_sources"
    /\ summaries' = summaries + 1
    /\ CASE summarize_pc = "interrupted" ->
              /\ summarize_pc' = "returned"
              /\ UNCHANGED <<new_information, accumulated_summary,
                             sources_gathered, gathered,
                             pending_source_selection>>
         [] summarize_pc = "nothing" ->
              /\ summarize_pc' = "returned"
              /\ new_information' = CouldNotSummarize
              /\ sources_gathered' =
                    AddSources(sources_gathered, search_results)
              /\ gathered' = gathered \cup Range(search_results)
              /\ pending_source_selection' = FALSE
              /\ UNCHANGED accumulated_summary
         [] summarize_pc = "consolidated" ->
              \E out \in ConsolidationOutcomes :
                IF out = "raise"
                THEN /\ summarize_pc' = "consolidation_raised"
                     /\ UNCHANGED <<new_information, accumulated_summary,
                                    sources_gathered, gathered,
                                    pending_source_selection>>
                ELSE /\ summarize_pc' = "returned"
                     /\ new_information' =
                           (IF out = "summary" THEN SummaryText ELSE "")
                     /\ accumulated_summary' =
                           Append(accumulated_summary, current_query)
                     /\ sources_gathered' =
                           AddSources(sources_gathered, search_results)
                     /\ gathered' = gathered \cup Range(search_results)
                     /\ pending_source_selection' = FALSE
    /\ UNCHANGED <<proposed_query, current_query, search_results,
                   completed_loops, final_report>>
    /\ UNCHANGED <<research_plan, current_section_index, plan_approved,
                   interactive_mode, is_interrupted, pc, ret, entry, runs,
                   searches, gens, reflections, cycle, interrupt_observed>>
    /\ UNCHANGED <<component, chunk_count, chunk_pc, chunk_result, semaphore,
                   finished, all_chunk_summaries>>
    /\ UNCHANGED <<planner_fields, reflector_fields, graph_fields,
                   cache_fields, client_fields, utility_fields>>

\* ResearchLoop._summarize_sources up to the consolidation: without selected
\* results it returns; else the chunks of the sources are summarized one
\* after the other, a chunk whose call raises or gives an empty text is
\* passed over; an error outside the chunk calls is caught at the end
legacy_summarize_chunks ==
    /\ summarize_pc = "idle"
    /\ component \in {"none", "_summarize_sources"}
    /\ summaries < MaxSummarizations
    /\ component' = "_summarize_sources"
    /\ \/ /\ summarize_pc' = "returned"
          /\ new_information' = NoSourcesSelected
          /\ pending_source_selection' = FALSE
          /\ summaries' = summaries + 1
          /\ UNCHANGED <<chunk_count, chunk_pc, chunk_result, finished,
                         all_chunk_summaries, graph_fields>>
       \/ /\ search_results # <<>>
          /\ \E answer \in ExtractionAnswers :
               LET kg == legacy_extraction(UnexpectedError, answer)
               IN  /\ knowledge_graph_nodes' = kg.nodes
                   /\ knowledge_graph_edges' = kg.edges
          /\ summarize_pc' = "returned"
          /\ new_information' = UnexpectedError
          /\ pending_source_selection' = FALSE
          /\ summaries' = summaries + 1
          /\ UNCHANGED <<chunk_count, chunk_pc, chunk_result, finished,
                         all_chunk_summaries, kg_call, kg_before, kg_outcome,
                         kg_presented, extractions>>
       \/ /\ search_results # <<>>
          /\ \E count \in 0..MaxChunks :
             \E result \in [1..MaxChunks -> ChunkOutcomes \cup {"pending"}] :
               /\ \A i \in 1..MaxChunks :
                    (result[i] = "pending") <=> (i > count)
               /\ chunk_count' = count
               /\ chunk_result' = result
               /\ chunk_pc' = [i \in 1..MaxChunks |->
                                 IF i <= count THEN "done" ELSE "unused"]
               /\ finished' = [i \in 1..count |-> i]
               /\ all_chunk_summaries' =
                     Summarized([i \in 1..count |-> i], result)
          /\ summarize_pc' =
                IF all_chunk_summaries' = <<>> THEN "nothing"
                ELSE "consolidated"
          /\ UNCHANGED <<new_information, pending_source_selection,
                         summaries, graph_fields>>
    /\ UNCHANGED <<proposed_query, current_query, search_results,
                   completed_loops, accumulated_summary, sources_gathered,
                   final_report>>
    /\ UNCHANGED <<plan_fields, interactive_mode, is_interrupted, pc, ret,
                   entry, runs, searches, gens, reflections, cycle,
                   interrupt_observed>>
    /\ UNCHANGED <<semaphore, planner_fields, reflector_fields, cache_fields,
                   client_fields, utility_fields>>

\* ResearchLoop._summarize_sources from the check of the chunk summaries to
\* its return: the failure message without a consolidation call when there
\* is no chunk summary, else the consolidation call, whose raise is caught;
\* then the extraction of entities and relations
legacy_summarize_finish ==
    /\ summarize_pc \in {"nothing", "consolidated"}
    /\ component = "_summarize_sources"
    /\ summarize_pc' = "returned"
    /\ summaries' = summaries + 1
    /\ pending_source_selection' = FALSE
    /\ IF summarize_pc = "nothing"
       THEN /\ new_information' = NoContentSummarized
            /\ UNCHANGED <<accumulated_summary, sources_gathered, gathered>>
       ELSE /\ \E out \in ConsolidationOutcomes :
                 /\ new_information' =
                       (CASE out = "summary" -> SummaryText
                          [] out = "empty" -> ""
                          [] out = "raise" -> ConsolidationError)
                 /\ IF out = "summary"
                    THEN accumulated_summary' =
                            Append(accumulated_summary, current_query)
                    ELSE UNCHANGED accumulated_summary
            /\ sources_gathered' =
                  AddSources(sources_gathered, search_results)
            /\ gathered' = gathered \cup Range(search_results)
    /\ \E answer \in ExtractionAnswers :
         LET kg == legacy_extraction(new_information', answer)
         IN  /\ knowledge_graph_nodes' = kg.nodes
             /\ knowledge_graph_edges' = kg.edges
    /\ UNCHANGED <<proposed_query, current_query, search_results,
                   completed_loops, final_report>>
    /\ UNCHANGED <<research_plan, current_section_index, plan_approved,
                   interactive_mode, is_interrupted, pc, ret, entry, runs,
                   searches, gens, reflections, cycle, interrupt_observed>>
    /\ UNCHANGED <<component, chunk_count, chunk_pc, chunk_result, semaphore,
                   finished, all_chunk_summaries>>
    /\ UNCHANGED <<kg_call, kg_before, kg_outcome, kg_presented, extractions,
                   planner_fields, reflector_fields, cache_fields,
                   client_fields, utility_fields>>

NextSummarize ==
    \/ search_found
    \/ em_summarize_nothing_selected
    \/ summarize_submit
    \/ chunk_task
    \/ summarize_gather
    \/ chunks_interrupt
    \/ summarize_finish
    \/ legacy_summarize_chunks
    \/ legacy_summarize_finish

SpecSummarize == Init /\ [][NextSummarize]_vars

\* the attempt is past its chunk phase
ChunkPhaseOver == summarize_pc \notin {"idle", "gathering"}
\* a chunk failed: its call raised or gave an empty text
FailedChunks == {i \in Chunks : chunk_result[i] \in {"raised", "empty"}}
SummarizedChunks == {i \in Chunks : chunk_result[i] = "summary"}

\* C34: when the summarization of one chunk fails (its LLM call raises or
\* returns an empty text) while another chunk's succeeds, the summarization
\* still completes: the failed chunk is skipped and the consolidated
\* summary is built from the remaining chunk summaries.
C34_FailedChunkSkipped ==
    /\ ChunkPhaseOver
    /\ ~is_interrupted
    /\ FailedChunks # {}
    /\ SummarizedChunks # {}
    => /\ summarize_pc \in {"consolidated", "consolidation_raised",
                            "returned"}
       /\ Range(all_chunk_summaries) = SummarizedChunks

\* every chunk of the attempt failed
AllChunksFailed ==
    /\ ChunkPhaseOver
    /\ ~is_interrupted
    /\ \A i \in Chunks : chunk_result[i] \in {"raised", "empty"}

\* what new_information says when nothing was summarized
FailureMessages == {NoSourcesSelected, NoSourcesSelectedEM,
                    NoContentSummarized, CouldNotSummarize, UnexpectedError}

\* C35: when no chunk yields a non-empty summary, no consolidation LLM call
\* is made, new_information is set to an explicit non-empty failure
\* message, and accumulated_summary is left unchanged.
C35_NothingSummarized ==
    /\ [](summarize_pc = "consolidated" => all_chunk_summaries # <<>>)
    /\ [](AllChunksFailed =>
            /\ summarize_pc \in {"nothing", "returned"}
            /\ summarize_pc = "returned" =>
                 new_information \in FailureMessages \ {""})
    /\ [][summarize_pc = "nothing" =>
            accumulated_summary' = accumulated_summary]_vars

\* C36: after any summarization attempt returns (no sources selected, a
\* successful summary, all chunks failing, the consolidation failing, or an
\* interruption during the chunk summarization), pending_source_selection
\* is false.
C36_SelectionOver ==
    summarize_pc = "returned" => ~pending_source_selection

----------------------------------------------------------------------------
(* Texts, character by character.  A text is a sequence of runs: a run   *)
(* is a character and the number of times it is repeated, so that a text *)
(* longer than the 100 characters of a query stays a short sequence.     *)
(* Only the letter comes in runs of more than one.                       *)

\* runs one text may hold
MaxQueryLen == 4
\* the characters of a long word
LongWord == 98
\* the most characters a query keeps
QueryLimit == 100

Char(c) == [ch |-> c, n |-> 1]
Letter == "a"
\* the backtick and the double quote
Backtick == "backtick"
Quote == "quote"
Whitespace == {" ", "\n"}
MarkerChars == {"*", "_", Backtick, Quote}
QueryRuns ==
    {Char(c) : c \in MarkerChars \cup Whitespace \cup {Letter}}
      \cup {[ch |-> Letter, n |-> LongWord]}
RawQueries == SeqsUpTo(QueryRuns, MaxQueryLen)

\* len(text)
RECURSIVE TextLen(_)
TextLen(t) == IF t = <<>> THEN 0 ELSE Head(t).n + TextLen(Tail(t))

\* text.lstrip() and text.strip()
RECURSIVE LStrip(_)
LStrip(t) ==
    IF t # <<>> /\ Head(t).ch \in Whitespace THEN LStrip(Tail(t)) ELSE t
RECURSIVE Strip(_)
Strip(t) ==
    IF t # <<>> /\ t[Len(t)].ch \in Whitespace
    THEN Strip(SubSeq(t, 1, Len(t) - 1))
    ELSE LStrip(t)

\* text.replace(c + c, ""): the pairs are taken from the left, and what the
\* removal of a pair brings together is not looked at again
RECURSIVE RemovePairs(_, _)
RemovePairs(t, c) ==
    IF Len(t) < 2 THEN t
    ELSE IF t[1].ch = c /\ t[2].ch = c
         THEN RemovePairs(Tail(Tail(t)), c)
         ELSE <<Head(t)>> \o RemovePairs(Tail(t), c)

\* text.replace(c, "")
RemoveChar(t, c) == SelectSeq(t, LAMBDA r : r.ch # c)

\* the four replace calls: the pairs of * and of _, then the backtick and
\* the double quote
RemoveMarkers(t) ==
    RemoveChar(RemoveChar(RemovePairs(RemovePairs(t, "*"), "_"), Backtick),
               Quote)

\* text.split('\n')[0]
RECURSIVE FirstLine(_)
FirstLine(t) ==
    IF t = <<>> \/ Head(t).ch = "\n" THEN <<>>
    ELSE <<Head(t)>> \o FirstLine(Tail(t))

\* text[:k]
RECURSIVE Prefix(_, _)
Prefix(t, k) ==
    IF t = <<>> \/ k <= 0 THEN <<>>
    ELSE IF Head(t).n <= k
         THEN <<Head(t)>> \o Prefix(Tail(t), k - Head(t).n)
         ELSE <<[ch |-> Head(t).ch, n |-> k]>>

\* text.rsplit(' ', 1)[0]: what stands before the last blank, the whole
\* text when it has none
RECURSIVE BeforeLastBlank(_)
BeforeLastBlank(t) ==
    IF \A i \in 1..Len(t) : t[i].ch # " " THEN t
    ELSE IF t[Len(t)].ch = " " THEN SubSeq(t, 1, Len(t) - 1)
         ELSE BeforeLastBlank(SubSeq(t, 1, Len(t) - 1))

\* ResearchPlanner._sanitize_query
_sanitize_query(query) ==
    IF query = <<>> THEN <<>>
    ELSE LET clean == Strip(FirstLine(RemoveMarkers(Strip(query))))
         IN  IF TextLen(clean) > QueryLimit
             THEN BeforeLastBlank(Prefix(clean, QueryLimit))
             ELSE clean

\* the planner sanitizes what the LLM answered for a query
call_sanitize_query ==
    /\ component = "none"
    /\ \E query \in RawQueries :
        /\ raw_query' = query
        /\ sanitized_query' = _sanitize_query(query)
    /\ component' = "_sanitize_query"
    /\ UNCHANGED <<reflect_line, parsed_query, ollama_call>>
    /\ UNCHANGED <<loop_fields, first_fields, beside_text>>

NextSanitize == call_sanitize_query

SpecSanitize == Init /\ [][NextSanitize]_vars

HasPair(t, c) == \E i \in 1..Len(t) - 1 : t[i].ch = c /\ t[i + 1].ch = c
HasChar(t, c) == \E i \in 1..Len(t) : t[i].ch = c

\* C37: a sanitized query is a single line of at most 100 characters that
\* contains none of **, __, backtick and double quote and has no leading or
\* trailing whitespace; sanitizing it again changes nothing.
C37_SanitizedQuery ==
    component = "_sanitize_query" =>
        /\ ~HasChar(sanitized_query, "\n")
        /\ TextLen(sanitized_query) <= QueryLimit
        /\ ~HasPair(sanitized_query, "*")
        /\ ~HasPair(sanitized_query, "_")
        /\ ~HasChar(sanitized_query, Backtick)
        /\ ~HasChar(sanitized_query, Quote)
        /\ sanitized_query # <<>> =>
             /\ sanitized_query[1].ch \notin Whitespace
             /\ sanitized_query[Len(sanitized_query)].ch \notin Whitespace
        /\ _sanitize_query(sanitized_query) = sanitized_query

----------------------------------------------------------------------------
(* The order in which the sections of the plan are researched *)

SectionsResearching ==
    {i \in 1..Len(research_plan) : research_plan[i].status = "researching"}

\* C38: the sections are researched one at a time in plan order: in every
\* state at most one section is researching, every section before
\* current_section_index is completed, every section after it is pending,
\* and current_section_index never decreases.
C38_OneSectionAtATime ==
    /\ [](/\ Cardinality(SectionsResearching) <= 1
          /\ \A i \in 1..Len(research_plan) :
               /\ i - 1 < current_section_index =>
                    research_plan[i].status = "completed"
               /\ i - 1 > current_section_index =>
                    research_plan[i].status = "pending")
    /\ [][current_section_index' >= current_section_index]_vars

\* the second of three sections is being researched
C38_Witness ==
    /\ Len(research_plan) >= 3
    /\ current_section_index = 1
    /\ research_plan[1].status = "completed"
    /\ research_plan[2].status = "researching"
    /\ research_plan[3].status = "pending"

----------------------------------------------------------------------------
(* LLMClient.generate_text with the ollama provider                      *)
(* (tools/llm_client.py): the model is invoked in a loop of              *)
(* OLLAMA_NUM_RETRIES + 1 attempts, with a sleep between two attempts.   *)

\* the largest OLLAMA_NUM_RETRIES of a configuration
MaxNumRetries == 2
\* generate_text calls of one session
MaxOllamaCalls == 2

\* what self.llm.invoke does: a text, an empty text, None, or it raises
OllamaOutcomes == {"response", "empty", "none", "ResponseError", "Exception"}
InvokeFailed(out) == out \in {"ResponseError", "Exception"}

\* the exception of the first attempt
first_exception(invoked) == [value |-> invoked[1], attempt |-> 1]

\* last_exception, re-raised by the bare raise of the last attempt
last_exception(invoked) ==
    [value |-> invoked[Len(invoked)], attempt |-> Len(invoked)]

\* what is returned for a response: "" for None and for a blank text
returned_response(out) == IF out = "response" THEN "response" ELSE ""

\* the message returned when the loop ends without an attempt
OllamaFallback ==
    "Error: Ollama failed to generate text after multiple retries."

\* generate_text is called: the loop begins, or has no attempt at all
ollama_generate_text ==
    /\ ollama_call.pc \in {"idle", "returned", "raised"}
    /\ ollama_call.calls < MaxOllamaCalls
    /\ \E num_retries \in -1..MaxNumRetries :
        ollama_call' =
            IF num_retries + 1 > 0
            THEN [pc |-> "attempt", num_retries |-> num_retries,
                  attempt |-> 0, invoked |-> <<>>, result |-> NoResponse,
                  calls |-> ollama_call.calls + 1]
            ELSE [pc |-> "returned", num_retries |-> num_retries,
                  attempt |-> 0, invoked |-> <<>>,
                  result |-> [value |-> OllamaFallback, attempt |-> 0],
                  calls |-> ollama_call.calls + 1]
    /\ component' = "generate_text"
    /\ UNCHANGED <<raw_query, sanitized_query, reflect_line, parsed_query>>
    /\ UNCHANGED <<loop_fields, first_fields, beside_text>>

\* one attempt: self.llm.invoke(prompt) answers or raises
ollama_invoke ==
    /\ ollama_call.pc = "attempt"
    /\ \E out \in OllamaOutcomes :
        LET invoked == Append(ollama_call.invoked, out)
        IN  ollama_call' =
              IF ~InvokeFailed(out)
              THEN [ollama_call EXCEPT
                      !.pc = "returned", !.invoked = invoked,
                      !.result = [value |-> returned_response(out),
                                  attempt |-> Len(invoked)]]
              ELSE IF ollama_call.attempt < ollama_call.num_retries
              THEN [ollama_call EXCEPT !.pc = "sleeping",
                                       !.invoked = invoked]
              ELSE [ollama_call EXCEPT
                      !.pc = "raised", !.invoked = invoked,
                      !.result = last_exception(invoked)]
    /\ UNCHANGED component
    /\ UNCHANGED <<raw_query, sanitized_query, reflect_line, parsed_query>>
    /\ UNCHANGED <<loop_fields, first_fields, beside_text>>

\* time.sleep(retry_delay) is over: the next attempt
ollama_retry ==
    /\ ollama_call.pc = "sleeping"
    /\ ollama_call' = [ollama_call EXCEPT !.pc = "attempt",
                                          !.attempt = @ + 1]
    /\ UNCHANGED component
    /\ UNCHANGED <<raw_query, sanitized_query, reflect_line, parsed_query>>
    /\ UNCHANGED <<loop_fields, first_fields, beside_text>>

NextOllama ==
    \/ ollama_generate_text
    \/ ollama_invoke
    \/ ollama_retry

SpecOllama == Init /\ [][NextOllama]_vars

\* C39: with the ollama provider one generate_text call invokes the model at
\* most OLLAMA_NUM_RETRIES + 1 times: no attempt follows one that answered,
\* be it with an empty text, the call returns what that attempt answered
\* ("" for an empty response), and when every attempt failed the call
\* raises the exception of the last attempt.
C39_OllamaRetries ==
    LET invoked == ollama_call.invoked
        k == Len(invoked)
        attempts == IF ollama_call.num_retries + 1 > 0
                    THEN ollama_call.num_retries + 1 ELSE 0
    IN  /\ k <= attempts
        /\ \A i \in 1..k - 1 : InvokeFailed(invoked[i])
        /\ k > 0 /\ ~InvokeFailed(invoked[k]) =>
             /\ ollama_call.pc = "returned"
             /\ ollama_call.result =
                  [value |-> IF invoked[k] = "response" THEN "response"
                             ELSE "",
                   attempt |-> k]
        /\ k > 0 /\ k = attempts /\ InvokeFailed(invoked[k]) =>
             /\ ollama_call.pc = "raised"
             /\ ollama_call.result = [value |-> invoked[k], attempt |-> k]
        /\ ollama_call.pc = "raised" =>
             k = attempts /\ \A i \in 1..k : InvokeFailed(invoked[i])

\* three attempts failed, the last one with an exception of its own kind
C39_Witness ==
    /\ ollama_call.pc = "raised"
    /\ ollama_call.num_retries = 2
    /\ ollama_call.invoked = <<"ResponseError", "ResponseError", "Exception">>
    /\ ollama_call.result = [value |-> "Exception", attempt |-> 3]

----------------------------------------------------------------------------
(* The QUERY: line of a reflection response, as                          *)
(* ResearchReflector.reflect_and_decide (core/reflection.py) and         *)
(* ResearchLoop._reflect_on_summary (core/research_loop.py) parse it.    *)
(* reflect_line is the text that follows the marker "QUERY:" on its line.*)

\* the word None, in any case
NoneWord == [ch |-> "none", n |-> 4]
ReflectRuns ==
    {Char(c) : c \in {Letter, ":", " ", "*"}}
      \cup {[ch |-> Letter, n |-> LongWord], NoneWord}
ReflectLines == SeqsUpTo(ReflectRuns, MaxQueryLen)

NoQuery == [given |-> FALSE, text |-> <<>>]
GivenQuery(t) == [given |-> TRUE, text |-> t]

\* ("QUERY:" + text).split(":")[-1]: what follows the last colon of the
\* line, which is the colon of the marker when the text has none
RECURSIVE AfterLastColon(_)
AfterLastColon(t) ==
    IF \A i \in 1..Len(t) : t[i].ch # ":" THEN t
    ELSE AfterLastColon(Tail(t))

\* ("QUERY:" + text).split(":", 1)[1]: what follows the marker
AfterMarker(t) == t

\* the QUERY: branch of the loop over the lines in reflect_and_decide
reflector_next_query(t) ==
    LET q == Strip(AfterLastColon(t))
    IN  IF q = <<NoneWord>> THEN NoQuery
        ELSE GivenQuery(Prefix(RemoveMarkers(q), QueryLimit))

\* the QUERY: branch of the loop over the lines in _reflect_on_summary
legacy_next_query(t) ==
    LET next_query_str == Strip(AfterMarker(t))
    IN  IF next_query_str = <<NoneWord>> THEN NoQuery
        ELSE GivenQuery(next_query_str)

\* reflect_and_decide reads a response with a QUERY: line
reflector_parse_query ==
    /\ component = "none"
    /\ \E t \in ReflectLines :
        /\ reflect_line' = t
        /\ parsed_query' = reflector_next_query(t)
    /\ component' = "reflect_and_decide"
    /\ UNCHANGED <<raw_query, sanitized_query, ollama_call>>
    /\ UNCHANGED <<loop_fields, first_fields, beside_text>>

\* _reflect_on_summary reads a response with a QUERY: line
legacy_parse_query ==
    /\ component = "none"
    /\ \E t \in ReflectLines :
        /\ reflect_line' = t
        /\ parsed_query' = legacy_next_query(t)
    /\ component' = "_reflect_on_summary"
    /\ UNCHANGED <<raw_query, sanitized_query, ollama_call>>
    /\ UNCHANGED <<loop_fields, first_fields, beside_text>>

NextReflectLine ==
    \/ reflector_parse_query
    \/ legacy_parse_query

SpecReflectLine == Init /\ [][NextReflectLine]_vars

\* C40: when the reflection response has a line "QUERY: <text>" whose text
\* is not None, the next query returned is the whole text that follows the
\* marker, without the markers and cut to 100 characters, also when the
\* text itself contains a colon.
C40_WholeQueryText ==
    component # "none" /\ Strip(reflect_line) # <<NoneWord>> =>
        parsed_query =
            GivenQuery(Prefix(RemoveMarkers(Strip(reflect_line)), QueryLimit))

====
